---- MODULE Spec2Model ----
(***************************************************************************)
(* Verification model of qutip_qip/circuit.py: the adjacency linearizer    *)
(* (QubitCircuit.adjacent_gates), the compilation of a circuit into the    *)
(* simulator's operation list (CircuitSimulator._process_ops and           *)
(* _process_ops_precompute) and the stepwise circuit simulator             *)
(* (CircuitSimulator.initialize / run / run_statistics / step).            *)
(***************************************************************************)
EXTENDS Integers, Sequences, FiniteSets, TLC

VARIABLES
    \* ---- QubitCircuit.adjacent_gates ----
    gates,      \* self.gates of the circuit adjacent_gates is called on
    temp,       \* temp.gates, the program being built
    gidx,       \* position of the `for gate in self.gates` loop (1-based)
    ends,       \* history: Len(temp) after each iteration of the for loop
    apc,        \* position of the call: "call", "loop", "done", "raised", "off"
    \* ---- CircuitSimulator ----
    qc,                 \* self.qc.gates, the circuit being simulated
    precompute_unitary, \* self.precompute_unitary
    ops,                \* self.ops, the compiled operation list
    prev_index,         \* _process_ops_precompute: prev_index
    U_list_index,       \* _process_ops_precompute: U_list_index
    cpos,               \* _process_ops_precompute: position of the for loop
    cpc,                \* position of the compilation: "loop", "done", "off"
    mode,               \* self.mode
    state,              \* self.state (the zero vector stands for None)
    cbits,              \* self.cbits: the address of a list in `heap`
    heap,               \* the Python lists of classical bits, by address
    probability,        \* self.probability, a fraction <<numerator, denominator>>
    op_index,           \* self.op_index
    measure_results,    \* self.measure_results (<<>> stands for None and for ())
    measure_ind,        \* self.measure_ind
    pc,                 \* position of the caller: "idle", "run", "ret", "off", ...
    entry,              \* the call in progress
    args,               \* history: the arguments of the call in progress
    prev,               \* history: the preceding forced run, while its arguments are repeated
    outcomes,           \* history: the outcomes taken by the measurements of this run
    result,             \* the CircuitResult returned last
    \* ---- CircuitSimulator.run_statistics ----
    combo,              \* number of replays started so far
    states,             \* states
    probabilities,      \* probabilities
    cbits_results,      \* cbits_results: the addresses of the lists appended
    starts,             \* history: the classical bits each replay started with
    finals,             \* history: the classical bits each replay ended with
    \* ---- QubitCircuit.resolve_gates ----
    basis,              \* the basis argument
    basis_1q,           \* basis_1q
    basis_2q,           \* basis_2q
    temp_resolved,      \* temp_resolved
    qc_temp,            \* qc_temp.gates
    ridx,               \* position of the `for gate in self.gates` loop (1-based)
    rpc,                \* position of the call: "call", "basis", "gates", "2q", "1q", "copy", "done", "raised", "off"
    rerr,               \* the exception raised (<<>> while there is none)
    mat,                \* history: the matrix of the gates of the result multiplied so far
    midx                \* history: number of gates of the result multiplied so far

adjVars == <<gates, temp, gidx, ends, apc>>
aggVars == <<qc, precompute_unitary, ops, prev_index, U_list_index, cpos, cpc>>

simVars == <<mode, state, cbits, heap, probability, op_index, measure_results,
             measure_ind, pc, entry, args, prev, outcomes, result>>

statVars == <<combo, states, probabilities, cbits_results, starts, finals>>

resVars == <<basis, basis_1q, basis_2q, temp_resolved, qc_temp, ridx, rpc, rerr,
             mat, midx>>

vars == <<gates, temp, gidx, ends, apc,
          qc, precompute_unitary, ops, prev_index, U_list_index, cpos, cpc,
          mode, state, cbits, heap, probability, op_index, measure_results,
          measure_ind, pc, entry, args, prev, outcomes, result,
          combo, states, probabilities, cbits_results, starts, finals,
          basis, basis_1q, basis_2q, temp_resolved, qc_temp, ridx, rpc, rerr,
          mat, midx>>

\* Python's None for an optional integer (index, argument value).
NoneInt == -1

(***************************************************************************)
(* Bounds                                                                  *)
(***************************************************************************)
\* Register size of the circuits given to adjacent_gates.
AdjN == 4
\* Largest number of gates in a circuit given to adjacent_gates.
MaxAdjGates == 2

(***************************************************************************)
(* Gates and measurements (the fields adjacent_gates reads and writes)     *)
(***************************************************************************)
\* Gate(name, targets=..., controls=..., arg_value=...)
Gate(name, targets, controls, arg_value) ==
    [cls |-> "Gate", name |-> name, targets |-> targets,
     controls |-> controls, arg_value |-> arg_value]

\* Measurement(name, targets=...)
MeasurementOp(name, targets) ==
    [cls |-> "Measurement", name |-> name, targets |-> targets,
     controls |-> <<>>, arg_value |-> NoneInt]

\* The object of identity k holding the fields of g.
WithObj(g, k) ==
    [cls |-> g.cls, name |-> g.name, targets |-> g.targets,
     controls |-> g.controls, arg_value |-> g.arg_value, obj |-> k]

\* A circuit's list of operations: the k-th is the object of identity k.
Objects(gs) == [k \in 1 .. Len(gs) |-> WithObj(gs[k], k)]

\* Gate(name, targets=..., controls=..., arg_value=...,
\*      classical_controls=..., control_value=...)
ControlledGate(name, targets, controls, arg_value, classical_controls, control_value) ==
    [cls |-> "Gate", name |-> name, targets |-> targets,
     controls |-> controls, arg_value |-> arg_value,
     classical_controls |-> classical_controls, control_value |-> control_value]

\* gate.classical_controls and gate.control_value: None (<<>> and NoneInt)
\* for a gate built without them.
ClassicalControlsOf(g) ==
    IF "classical_controls" \in DOMAIN g THEN g.classical_controls ELSE <<>>
ControlValueOf(g) ==
    IF "control_value" \in DOMAIN g THEN g.control_value ELSE NoneInt

\* copy.deepcopy of one gate: a new object with the same fields.
DeepcopyGate(g) ==
    IF g.cls = "Gate"
    THEN IF "classical_controls" \in DOMAIN g
         THEN ControlledGate(g.name, g.targets, g.controls, g.arg_value,
                             g.classical_controls, g.control_value)
         ELSE Gate(g.name, g.targets, g.controls, g.arg_value)
    ELSE MeasurementOp(g.name, g.targets)

\* deepcopy(qc_temp.gates), and the list left as it is.
DeepcopyKept(gs) == gs
Deepcopy(gs) == [k \in 1 .. Len(gs) |-> DeepcopyGate(gs[k])]

swap_gates == {"SWAP", "ISWAP", "SQRTISWAP", "SQRTSWAP", "BERKELEY", "SWAPalpha"}

Min2(a, b) == IF a < b THEN a ELSE b
Max2(a, b) == IF a < b THEN b ELSE a

\* The gates a circuit handed to adjacent_gates is drawn from: controlled
\* gates with every ordered (control, target) pair, swap-like gates in both
\* target orders (one of them parametrised), a single-qubit rotation and a
\* measurement.
AdjQubits == 0 .. (AdjN - 1)
AdjPairs == {p \in AdjQubits \X AdjQubits : p[1] < p[2]}
AdjInputGates ==
    {Gate(n, <<p[1]>>, <<p[2]>>, NoneInt) :
        n \in {"CNOT", "CSIGN"}, p \in AdjPairs}
    \cup {Gate(n, <<p[2]>>, <<p[1]>>, NoneInt) :
        n \in {"CNOT", "CSIGN"}, p \in AdjPairs}
    \cup {Gate("SWAPalpha", <<p[1], p[2]>>, <<>>, 3) : p \in AdjPairs}
    \cup {Gate("ISWAP", <<p[2], p[1]>>, <<>>, NoneInt) : p \in AdjPairs}
    \cup {Gate("RX", <<0>>, <<>>, 1)}
    \cup {Gate("GLOBALPHASE", <<>>, <<>>, 1)}
    \cup {MeasurementOp("M0", <<0>>)}

RECURSIVE SeqsUpTo(_, _)
SeqsUpTo(S, n) ==
    IF n = 0 THEN {<<>>}
    ELSE LET shorter == SeqsUpTo(S, n - 1)
         IN  shorter \cup {Append(s, x) : s \in {t \in shorter : Len(t) = n - 1}, x \in S}

(***************************************************************************)
(* adjacent_gates: the body of the while loops                             *)
(***************************************************************************)
\* Gate("SWAP", targets=[i, i + 1])
SwapAt(i) == Gate("SWAP", <<i, i + 1>>, <<>>, NoneInt)

\* Gate("SWAP", targets=[start + end - i - 1, start + end - i])
MirrorSwapBad(start, end, i) ==
    Gate("SWAP", <<start + end - i - 1, start + end - i + 1>>, <<>>, NoneInt)
MirrorSwap(start, end, i) ==
    Gate("SWAP", <<start + end - i - 1, start + end - i>>, <<>>, NoneInt)

\* The controlled gate emitted on the adjacent pair (lo, lo + 1): the control
\* goes to the upper position when the original control is `end`.
CtrlGateAtBad(gate, end, lo) ==
    Gate(gate.name, <<lo>>, <<lo + 1>>, NoneInt)
CtrlGateAt(gate, end, lo) ==
    IF end = gate.controls[1]
    THEN Gate(gate.name, <<lo>>, <<lo + 1>>, NoneInt)
    ELSE Gate(gate.name, <<lo + 1>>, <<lo>>, NoneInt)

\* Gate(gate.name, targets=[lo, lo + 1])
SwapLikeAt(gate, lo) == Gate(gate.name, <<lo, lo + 1>>, <<>>, NoneInt)

\* The gate of the input's kind emitted on (lo, lo + 1).
EmitAt(gate, end, lo) ==
    IF gate.name \in {"CNOT", "CSIGN"} THEN CtrlGateAt(gate, end, lo)
    ELSE SwapLikeAt(gate, lo)

\* The while loop without the SWAP that follows the gate in the odd-span
\* branch.
RECURSIVE AdjWhileNoSwapBack(_, _, _, _, _)
AdjWhileNoSwapBack(gate, start, end, i, out) ==
    IF ~(i < end) THEN out
    ELSE IF start + end - i - i = 1 /\ (end - start + 1) % 2 = 0
         THEN AdjWhileNoSwapBack(gate, start, end, i + 1,
                                 Append(out, EmitAt(gate, end, i)))
    ELSE IF start + end - i - i = 2 /\ (end - start + 1) % 2 = 1
         THEN AdjWhileNoSwapBack(gate, start, end, i + 2,
                                 out \o <<SwapAt(i), EmitAt(gate, end, i + 1)>>)
    ELSE AdjWhileNoSwapBack(gate, start, end, i + 1,
                            out \o <<SwapAt(i), MirrorSwap(start, end, i)>>)

\* while i < end: ... (both while loops have this shape; they differ in the
\* gate EmitAt builds)
RECURSIVE AdjWhile(_, _, _, _, _)
AdjWhile(gate, start, end, i, out) ==
    IF ~(i < end) THEN out
    ELSE IF start + end - i - i = 1 /\ (end - start + 1) % 2 = 0
         THEN AdjWhile(gate, start, end, i + 1,
                       Append(out, EmitAt(gate, end, i)))
    ELSE IF start + end - i - i = 2 /\ (end - start + 1) % 2 = 1
         THEN AdjWhile(gate, start, end, i + 2,
                       out \o <<SwapAt(i), EmitAt(gate, end, i + 1), SwapAt(i)>>)
    ELSE AdjWhile(gate, start, end, i + 1,
                  out \o <<SwapAt(i), MirrorSwap(start, end, i)>>)

\* The two qubits of a two-qubit gate, as the branch of adjacent_gates reads them.
GateStart(gate) ==
    IF gate.name \in {"CNOT", "CSIGN"}
    THEN Min2(gate.targets[1], gate.controls[1])
    ELSE Min2(gate.targets[1], gate.targets[2])
GateEnd(gate) ==
    IF gate.name \in {"CNOT", "CSIGN"}
    THEN Max2(gate.targets[1], gate.controls[1])
    ELSE Max2(gate.targets[1], gate.targets[2])

\* No resolve_gates call is in progress.
ResOff ==
    /\ basis = <<>> /\ basis_1q = <<>> /\ basis_2q = <<>>
    /\ temp_resolved = <<>> /\ qc_temp = <<>> /\ ridx = 1
    /\ rpc = "off" /\ rerr = <<>> /\ mat = <<>> /\ midx = 0

\* No run_statistics call is in progress.
StatOff ==
    /\ combo = 0 /\ states = <<>> /\ probabilities = <<>>
    /\ cbits_results = <<>> /\ starts = <<>> /\ finals = <<>>
    /\ ResOff

\* No simulation is in progress.
SimOff ==
    /\ mode = "" /\ state = <<>> /\ cbits = NoneInt /\ heap = <<>>
    /\ probability = <<1, 1>> /\ op_index = 0 /\ measure_results = <<>>
    /\ measure_ind = 0 /\ pc = "off" /\ entry = "" /\ args = <<>>
    /\ prev = <<>> /\ outcomes = <<>> /\ result = <<>>
    /\ StatOff

\* No compilation is in progress.
AggOff ==
    /\ qc = <<>> /\ precompute_unitary = FALSE /\ ops = <<>>
    /\ prev_index = 0 /\ U_list_index = 0 /\ cpos = 1 /\ cpc = "off"

(***************************************************************************)
(* adjacent_gates: the call                                                *)
(***************************************************************************)
AdjInit ==
    /\ gates \in {Objects(gs) : gs \in SeqsUpTo(AdjInputGates, MaxAdjGates)}
    /\ temp = <<>>
    /\ gidx = 1
    /\ ends = <<>>
    /\ apc = "call"
    /\ AggOff
    /\ SimOff

\* num_measurements > 0: raise NotImplementedError
AdjRaiseMeasurement ==
    /\ apc = "call"
    /\ \E k \in 1 .. Len(gates) : gates[k].cls = "Measurement"
    /\ apc' = "raised"
    /\ UNCHANGED <<gates, temp, gidx, ends>>
    /\ UNCHANGED aggVars
    /\ UNCHANGED simVars
    /\ UNCHANGED statVars
    /\ UNCHANGED resVars

AdjEnterLoop ==
    /\ apc = "call"
    /\ \A k \in 1 .. Len(gates) : gates[k].cls # "Measurement"
    /\ apc' = "loop"
    /\ UNCHANGED <<gates, temp, gidx, ends>>
    /\ UNCHANGED aggVars
    /\ UNCHANGED simVars
    /\ UNCHANGED statVars
    /\ UNCHANGED resVars

\* if gate.name == "CNOT" or gate.name == "CSIGN": ...
AdjGateControlled ==
    /\ apc = "loop" /\ gidx <= Len(gates)
    /\ gates[gidx].name \in {"CNOT", "CSIGN"}
    /\ LET gate == gates[gidx]
           start == GateStart(gate)
           end == GateEnd(gate)
       IN  temp' = AdjWhile(gate, start, end, start, temp)
    /\ ends' = Append(ends, Len(temp'))
    /\ gidx' = gidx + 1
    /\ UNCHANGED <<gates, apc>>
    /\ UNCHANGED aggVars
    /\ UNCHANGED simVars
    /\ UNCHANGED statVars
    /\ UNCHANGED resVars

\* elif gate.name in swap_gates: ...
AdjGateSwapLike ==
    /\ apc = "loop" /\ gidx <= Len(gates)
    /\ gates[gidx].name \notin {"CNOT", "CSIGN"}
    /\ gates[gidx].name \in swap_gates
    /\ LET gate == gates[gidx]
           start == GateStart(gate)
           end == GateEnd(gate)
       IN  temp' = AdjWhile(gate, start, end, start, temp)
    /\ ends' = Append(ends, Len(temp'))
    /\ gidx' = gidx + 1
    /\ UNCHANGED <<gates, apc>>
    /\ UNCHANGED aggVars
    /\ UNCHANGED simVars
    /\ UNCHANGED statVars
    /\ UNCHANGED resVars

\* The else branch, were it to skip the gate instead of raising.
AdjSkipUnsupported ==
    /\ apc = "loop" /\ gidx <= Len(gates)
    /\ gates[gidx].name \notin {"CNOT", "CSIGN"}
    /\ gates[gidx].name \notin swap_gates
    /\ gidx' = gidx + 1
    /\ ends' = Append(ends, Len(temp))
    /\ UNCHANGED <<gates, temp, apc>>
    /\ UNCHANGED aggVars
    /\ UNCHANGED simVars
    /\ UNCHANGED statVars
    /\ UNCHANGED resVars

\* else: raise NotImplementedError("`adjacent_gates` is not defined for gate ...")
AdjRaiseUnsupported ==
    /\ apc = "loop" /\ gidx <= Len(gates)
    /\ gates[gidx].name \notin {"CNOT", "CSIGN"}
    /\ gates[gidx].name \notin swap_gates
    /\ apc' = "raised"
    /\ UNCHANGED <<gates, temp, gidx, ends>>
    /\ UNCHANGED aggVars
    /\ UNCHANGED simVars
    /\ UNCHANGED statVars
    /\ UNCHANGED resVars

\* temp.gates = deepcopy(temp.gates); return temp
AdjReturn ==
    /\ apc = "loop" /\ gidx > Len(gates)
    /\ temp' = Deepcopy(temp)
    /\ apc' = "done"
    /\ UNCHANGED <<gates, gidx, ends>>
    /\ UNCHANGED aggVars
    /\ UNCHANGED simVars
    /\ UNCHANGED statVars
    /\ UNCHANGED resVars

AdjNext ==
    \/ AdjRaiseMeasurement
    \/ AdjEnterLoop
    \/ AdjGateControlled
    \/ AdjGateSwapLike
    \/ AdjRaiseUnsupported
    \/ AdjReturn

SpecAdj == AdjInit /\ [][AdjNext]_vars

(***************************************************************************)
(* Claims about adjacent_gates                                             *)
(***************************************************************************)
\* All qubits a gate acts on: controls then targets.
AllQubits(g) == g.controls \o g.targets

Abs(x) == IF x < 0 THEN -x ELSE x

\* The gates emitted for the k-th input gate.
Block(k) ==
    SubSeq(temp, (IF k = 1 THEN 0 ELSE ends[k - 1]) + 1, ends[k])

\* C9: every gate of the program adjacent_gates builds (inserted SWAPs and
\* the rewritten gates alike) acts on exactly two qubits whose indices
\* differ by exactly 1.
C9_Adjacent ==
    \A k \in 1 .. Len(temp) :
        /\ Len(AllQubits(temp[k])) = 2
        /\ Abs(AllQubits(temp[k])[1] - AllQubits(temp[k])[2]) = 1

\* A returned program holding the rewrite of a gate spanning 3 or more
\* positions (so both inserted SWAP forms were emitted).
C9_Witness ==
    /\ apc = "done"
    /\ \E k \in 1 .. Len(gates) :
          /\ GateEnd(gates[k]) - GateStart(gates[k]) >= 3
          /\ Len(Block(k)) >= 5

\* The arrangement of original qubits after the emitted SWAPs of `seq` are
\* applied to arrangement `perm` (perm[p + 1] is the original qubit sitting
\* at position p).
RECURSIVE PermAfter(_, _)
PermAfter(seq, perm) ==
    IF seq = <<>> THEN perm
    ELSE LET g == Head(seq)
             a == g.targets[1] + 1
             b == g.targets[2] + 1
         IN  IF g.name = "SWAP"
             THEN PermAfter(Tail(seq),
                            [perm EXCEPT ![a] = perm[b], ![b] = perm[a]])
             ELSE PermAfter(Tail(seq), perm)

IdPerm == [p \in 1 .. AdjN |-> p - 1]

MaxAggOps == 4

\* Gate(name, targets, controls, classical_controls, control_value)
SimGate(name, targets, controls, classical_controls, control_value) ==
    [cls |-> "Gate", name |-> name, targets |-> targets, controls |-> controls,
     classical_controls |-> classical_controls, control_value |-> control_value,
     classical_store |-> NoneInt]

\* Measurement(name, targets, classical_store)
SimMeasurement(name, targets, classical_store) ==
    [cls |-> "Measurement", name |-> name, targets |-> targets, controls |-> <<>>,
     classical_controls |-> <<>>, control_value |-> NoneInt,
     classical_store |-> classical_store]

\* gates = [g for g in self.gates if not isinstance(g, Measurement)]
RECURSIVE GatesOnly(_)
GatesOnly(gs) ==
    IF gs = <<>> THEN <<>>
    ELSE IF Head(gs).cls = "Measurement" THEN GatesOnly(Tail(gs))
    ELSE <<Head(gs)>> \o GatesOnly(Tail(gs))

\* A unitary is the ordered product of the matrices of the gates whose
\* (0-based) positions in U_list are `factors` (first factor applied first);
\* `expanded` tells whether it has been expanded to the full register.
Unitary(factors, expanded) == [factors |-> factors, expanded |-> expanded]
NoUnitary == Unitary(<<>>, FALSE)
NoOperation == SimGate("", <<>>, <<>>, <<>>, NoneInt)

\* self.U_list[k]: qc.propagators(expand=not precompute_unitary,
\* ignore_measurement=True) holds one matrix per gate, measurements skipped.
UListAt(k, precompute) == Unitary(<<k>>, ~precompute)

\* The three shapes of an entry of self.ops.
OpMeasure(operation) == [kind |-> "M", operation |-> operation, U |-> NoUnitary]
OpTuple(operation, U) == [kind |-> "T", operation |-> operation, U |-> U]
OpUnitary(U) == [kind |-> "U", operation |-> NoOperation, U |-> U]

(***************************************************************************)
(* CircuitSimulator._process_ops                                           *)
(***************************************************************************)
RECURSIVE ProcessOpsFrom(_, _, _)
ProcessOpsFrom(gs, index, out) ==
    IF gs = <<>> THEN out
    ELSE LET operation == Head(gs)
         IN  IF operation.cls = "Measurement"
             THEN ProcessOpsFrom(Tail(gs), index, Append(out, OpMeasure(operation)))
             ELSE IF operation.classical_controls # <<>>
             THEN ProcessOpsFrom(Tail(gs), index + 1,
                      Append(out, OpTuple(operation, UListAt(index, FALSE))))
             ELSE ProcessOpsFrom(Tail(gs), index + 1,
                      Append(out, OpUnitary(UListAt(index, FALSE))))

ProcessOps(gs) == ProcessOpsFrom(gs, 0, <<>>)

(***************************************************************************)
(* CircuitSimulator._process_ops_precompute                                *)
(***************************************************************************)
\* self._compute_unitary(self.U_list[from:index], self.inds_list[from:index])
ComputeUnitary(from, index) ==
    Unitary([j \in 1 .. (index - from) |-> from + j - 1], TRUE)

\* if U_list_index > prev_index: append the product; prev_index = U_list_index
Flush(acc) ==
    IF acc.U_list_index > acc.prev_index
    THEN [acc EXCEPT
            !.ops = Append(@, OpUnitary(ComputeUnitary(acc.prev_index, acc.U_list_index))),
            !.prev_index = acc.U_list_index]
    ELSE acc

\* isinstance(operation, Measurement)
AggOnMeasurement(acc, operation) ==
    LET a == Flush(acc)
    IN  [a EXCEPT !.ops = Append(@, OpMeasure(operation))]

\* The classically controlled branch without the product of the pending gates.
AggOnControlledNoFlush(acc, operation) ==
    [acc EXCEPT
        !.ops = Append(@, OpTuple(operation, UListAt(acc.prev_index, TRUE))),
        !.prev_index = @ + 1,
        !.U_list_index = @ + 1]
\* operation.classical_controls
AggOnControlled(acc, operation) ==
    LET a == Flush(acc)
    IN  [a EXCEPT
            !.ops = Append(@, OpTuple(operation, UListAt(a.prev_index, TRUE))),
            !.prev_index = @ + 1,
            !.U_list_index = @ + 1]

\* an unconditional gate: U_list_index += 1
AggOnPlain(acc) == [acc EXCEPT !.U_list_index = @ + 1]

\* after the loop
AggFinish(acc) ==
    IF acc.U_list_index > acc.prev_index
    THEN [ops |-> Append(acc.ops,
                    OpUnitary(ComputeUnitary(acc.prev_index, acc.U_list_index))),
          prev_index |-> acc.U_list_index + 1,
          U_list_index |-> acc.U_list_index + 1]
    ELSE acc

AggBody(acc, operation) ==
    IF operation.cls = "Measurement" THEN AggOnMeasurement(acc, operation)
    ELSE IF operation.classical_controls # <<>> THEN AggOnControlled(acc, operation)
    ELSE AggOnPlain(acc)

RECURSIVE AggFold(_, _)
AggFold(gs, acc) ==
    IF gs = <<>> THEN AggFinish(acc)
    ELSE AggFold(Tail(gs), AggBody(acc, Head(gs)))

ProcessOpsPrecompute(gs) ==
    AggFold(gs, [ops |-> <<>>, prev_index |-> 0, U_list_index |-> 0]).ops

\* The circuits whose compilation is checked.
AggInputOps ==
    { SimGate("SNOT", <<0>>, <<>>, <<>>, NoneInt),
      SimGate("CNOT", <<1>>, <<0>>, <<>>, NoneInt),
      SimGate("X", <<1>>, <<>>, <<0>>, NoneInt),
      SimMeasurement("M0", <<0>>, 0) }

AggAcc == [ops |-> ops, prev_index |-> prev_index, U_list_index |-> U_list_index]

AdjOff ==
    /\ gates = <<>> /\ temp = <<>> /\ gidx = 1 /\ ends = <<>> /\ apc = "off"

AggInit ==
    /\ qc \in SeqsUpTo(AggInputOps, MaxAggOps)
    /\ precompute_unitary = TRUE
    /\ ops = <<>>
    /\ prev_index = 0
    /\ U_list_index = 0
    /\ cpos = 1
    /\ cpc = "loop"
    /\ AdjOff
    /\ SimOff

AggSet(acc) ==
    /\ ops' = acc.ops
    /\ prev_index' = acc.prev_index
    /\ U_list_index' = acc.U_list_index

AggMeasurement ==
    /\ cpc = "loop" /\ cpos <= Len(qc)
    /\ qc[cpos].cls = "Measurement"
    /\ AggSet(AggOnMeasurement(AggAcc, qc[cpos]))
    /\ cpos' = cpos + 1
    /\ UNCHANGED <<qc, precompute_unitary, cpc>>
    /\ UNCHANGED adjVars
    /\ UNCHANGED resVars
    /\ UNCHANGED simVars
    /\ UNCHANGED statVars

AggControlled ==
    /\ cpc = "loop" /\ cpos <= Len(qc)
    /\ qc[cpos].cls = "Gate"
    /\ qc[cpos].classical_controls # <<>>
    /\ AggSet(AggOnControlled(AggAcc, qc[cpos]))
    /\ cpos' = cpos + 1
    /\ UNCHANGED <<qc, precompute_unitary, cpc>>
    /\ UNCHANGED adjVars
    /\ UNCHANGED resVars
    /\ UNCHANGED simVars
    /\ UNCHANGED statVars

AggPlain ==
    /\ cpc = "loop" /\ cpos <= Len(qc)
    /\ qc[cpos].cls = "Gate"
    /\ qc[cpos].classical_controls = <<>>
    /\ AggSet(AggOnPlain(AggAcc))
    /\ cpos' = cpos + 1
    /\ UNCHANGED <<qc, precompute_unitary, cpc>>
    /\ UNCHANGED adjVars
    /\ UNCHANGED resVars
    /\ UNCHANGED simVars
    /\ UNCHANGED statVars

AggEnd ==
    /\ cpc = "loop" /\ cpos > Len(qc)
    /\ AggSet(AggFinish(AggAcc))
    /\ cpc' = "done"
    /\ UNCHANGED <<qc, precompute_unitary, cpos>>
    /\ UNCHANGED adjVars
    /\ UNCHANGED resVars
    /\ UNCHANGED simVars
    /\ UNCHANGED statVars

AggNext ==
    \/ AggMeasurement
    \/ AggControlled
    \/ AggPlain
    \/ AggEnd

SpecAgg == AggInit /\ [][AggNext]_vars

(***************************************************************************)
(* Claims about the compiled operation list                                *)
(***************************************************************************)
\* An entry of an operation list without the expansion flag of its unitary.
Bare(kind, operation, factors) ==
    [kind |-> kind, operation |-> operation, factors |-> factors]

\* An operation list with every aggregated entry replaced by the ordered
\* group of single gates it multiplies.
RECURSIVE Flatten(_)
Flatten(os) ==
    IF os = <<>> THEN <<>>
    ELSE LET o == Head(os)
         IN  (IF o.kind = "U"
              THEN [j \in 1 .. Len(o.U.factors) |->
                        Bare("U", o.operation, <<o.U.factors[j]>>)]
              ELSE <<Bare(o.kind, o.operation, o.U.factors)>>)
             \o Flatten(Tail(os))

\* C8: the operation list compiled with aggregation refines the one compiled
\* without it: replacing each aggregated entry by the ordered group of gates
\* it multiplies gives exactly the non-aggregated list (same measurements and
\* classically controlled gates in the same order, each classically
\* controlled gate with its own unitary, every unconditional gate in exactly
\* one group, in program order).
C8_AggregationRefines ==
    cpc = "done" =>
        /\ Flatten(ops) = Flatten(ProcessOps(qc))
        /\ \A k \in 1 .. Len(ops) : ops[k].kind = "U" => ops[k].U.factors # <<>>

\* A compiled list with a group of two or more gates, a classically
\* controlled gate after a pending group, and a measurement.
C8_Witness ==
    /\ cpc = "done"
    /\ \E k \in 1 .. Len(ops) : ops[k].kind = "U" /\ Len(ops[k].U.factors) >= 2
    /\ \E k \in 2 .. Len(ops) : ops[k].kind = "T" /\ ops[k - 1].kind = "U"
    /\ \E k \in 1 .. Len(ops) : ops[k].kind = "M"

(***************************************************************************)
(* State vectors, gate matrices and projective measurement                 *)
(*                                                                         *)
(* A ket is kept as the vector of its amplitudes up to a positive factor:  *)
(* a tuple of 2^SimN integers with greatest common divisor 1 (entry b + 1  *)
(* is the amplitude of basis state b, qubit 0 being the most significant   *)
(* bit).  Kets are normalised, so two kets are equal exactly when their    *)
(* tuples are.  The zero tuple stands for None.  Probabilities are exact   *)
(* fractions <<numerator, denominator>> in lowest terms.                   *)
(***************************************************************************)
\* Number of qubits of the simulated circuits (self.qc.N).
SimN == 2
\* Number of classical bits of the simulated circuits (self.qc.num_cbits).
NumCbits == 2

RECURSIVE Pow2(_)
Pow2(n) == IF n = 0 THEN 1 ELSE 2 * Pow2(n - 1)

Dim == Pow2(SimN)

RECURSIVE GCD(_, _)
GCD(a, b) == IF b = 0 THEN a ELSE GCD(b, a % b)

RECURSIVE SeqGCD(_)
SeqGCD(v) == IF v = <<>> THEN 0 ELSE GCD(Abs(Head(v)), SeqGCD(Tail(v)))

RECURSIVE SumSq(_)
SumSq(v) == IF v = <<>> THEN 0 ELSE Head(v) * Head(v) + SumSq(Tail(v))

None == [b \in 1 .. Dim |-> 0]

Normalise(v) ==
    LET g == SeqGCD(v)
    IN  IF g = 0 THEN v ELSE [b \in 1 .. Dim |-> v[b] \div g]

Frac(n, d) == LET g == GCD(n, d) IN IF g = 0 THEN <<0, 1>> ELSE <<n \div g, d \div g>>
FracMul(x, y) == Frac(x[1] * y[1], x[2] * y[2])
FracAdd(x, y) == Frac(x[1] * y[2] + y[1] * x[2], x[2] * y[2])
FracDiv(x, y) == Frac(x[1] * y[2], x[2] * y[1])

\* Bit of qubit q in basis state b, and b with that bit flipped.
BitOf(b, q) == (b \div Pow2(SimN - 1 - q)) % 2
FlipBit(b, q) ==
    IF BitOf(b, q) = 0 THEN b + Pow2(SimN - 1 - q) ELSE b - Pow2(SimN - 1 - q)

\* gate.get_qobj(N) * v for the gates of the simulated circuits, up to a
\* positive factor (the Hadamard is taken without its 1/sqrt(2)).
GateTimes(g, v) ==
    LET t == g.targets[1]
    IN  CASE g.name = "X" ->
                [b \in 1 .. Dim |-> v[FlipBit(b - 1, t) + 1]]
          [] g.name = "SNOT" ->
                [b \in 1 .. Dim |->
                    IF BitOf(b - 1, t) = 0
                    THEN v[b] + v[FlipBit(b - 1, t) + 1]
                    ELSE v[FlipBit(b - 1, t) + 1] - v[b]]
          [] g.name = "CNOT" ->
                [b \in 1 .. Dim |->
                    IF BitOf(b - 1, g.controls[1]) = 1
                    THEN v[FlipBit(b - 1, t) + 1]
                    ELSE v[b]]

ApplyGate(g, v) == Normalise(GateTimes(g, v))

\* U * v, U being the product of the gates at positions U.factors of U_list.
RECURSIVE ApplyFactors(_, _, _)
ApplyFactors(fs, gs, v) ==
    IF fs = <<>> THEN v
    ELSE ApplyFactors(Tail(fs), gs, ApplyGate(gs[Head(fs) + 1], v))

\* expand_operator(U, self.qc.N, operation.get_all_qubits())
ExpandOperator(U) == Unitary(U.factors, TRUE)

\* Measurement.measurement_comp_basis(state): the candidate collapsed states
\* and their probabilities for outcomes 0 and 1 of the target qubit
\* (qutip.measurement.measurement_statistics gives None as the collapsed
\* state of an outcome of probability 0).
Project(operation, v, i) ==
    [b \in 1 .. Dim |-> IF BitOf(b - 1, operation.targets[1]) = i THEN v[b] ELSE 0]

MeasurementCompBasis(operation, v) ==
    LET p0 == Project(operation, v, 0)
        p1 == Project(operation, v, 1)
    IN  [states |-> <<Normalise(p0), Normalise(p1)>>,
         probabilities |-> <<Frac(SumSq(p0), SumSq(v)), Frac(SumSq(p1), SumSq(v))>>]

(***************************************************************************)
(* CircuitSimulator: construction, initialize, step, run                   *)
(***************************************************************************)
\* Largest number of operations in a circuit that is run.
MaxRunOps == 2

Zeros == [k \in 1 .. NumCbits |-> 0]

\* |0...0> and |10...0>
InitialStates ==
    { [b \in 1 .. Dim |-> IF b = 1 THEN 1 ELSE 0],
      [b \in 1 .. Dim |-> IF b = Pow2(SimN - 1) + 1 THEN 1 ELSE 0] }

\* The classical-bit vectors a caller supplies.
SuppliedCbits ==
    { Zeros, [k \in 1 .. NumCbits |-> IF k = 1 THEN 1 ELSE 0] }

\* The circuits that are run: a Hadamard, a gate controlled on classical bit
\* 0 (default control value), a gate controlled on classical bits 0 and 1
\* with control value 1 (bit 0 set, bit 1 clear), and two measurements.
RunInputOps ==
    { SimGate("SNOT", <<0>>, <<>>, <<>>, NoneInt),
      SimGate("X", <<1>>, <<>>, <<0>>, NoneInt),
      SimGate("X", <<0>>, <<>>, <<0, 1>>, 1),
      SimMeasurement("M0", <<0>>, 0),
      SimMeasurement("M1", <<1>>, 1) }

NumMeasurements(gs) == Cardinality({k \in 1 .. Len(gs) : gs[k].cls = "Measurement"})

RECURSIVE BitSeqs(_)
BitSeqs(n) ==
    IF n = 0 THEN {<<>>}
    ELSE {Append(s, b) : s \in BitSeqs(n - 1), b \in {0, 1}}

\* CircuitSimulator.__init__: self.ops
Compile(gs, precompute) ==
    IF precompute THEN ProcessOpsPrecompute(gs) ELSE ProcessOps(gs)

\* The list at address a of heap h replaced by (or created as) l.
Store(h, a, l) ==
    [x \in 1 .. Max2(Len(h), a) |-> IF x = a THEN l ELSE h[x]]

\* An exception of the given class whose message is made of the given parts.
Raised(type, message) == [type |-> type, message |-> message]

\* The probability after initialize, were it left as the last run left it.
InitProbabilityKept == probability
\* self.probability = 1
InitProbability == <<1, 1>>

\* CircuitSimulator.initialize(state, cbits, measure_results), cbits being the
\* list at address cbref of heap h (NoneInt for None); a list the simulator
\* creates is put at address fresh.
Initialize(st, cbref, mr, h, fresh) ==
    /\ IF cbref # NoneInt /\ h[cbref] # <<>> /\ Len(h[cbref]) = NumCbits
       THEN cbits' = cbref /\ heap' = h
       ELSE cbits' = fresh /\ heap' = Store(h, fresh, Zeros)
    /\ state' = st
    /\ probability' = InitProbability
    /\ op_index' = 0
    /\ measure_results' = mr
    /\ measure_ind' = 0

\* The caller's list lives at address 1, the list the simulator creates for
\* a single run at address 2.
\* The caller passes None or a list it has just built (a list passed to an
\* earlier call is dropped).
CallerChoices ==
    {<<"none", <<>>>>} \cup {<<"new", v>> : v \in SuppliedCbits}

CallerHeap(c) == Store(heap, 1, c[2])
CallerRef(c) == IF c[1] = "none" THEN NoneInt ELSE 1

NoPrev == [valid |-> FALSE, args |-> <<>>, state |-> <<>>,
           probability |-> <<1, 1>>, cbits |-> <<>>]

MakeArgs(st, c, mr) ==
    [state |-> st,
     cbits |-> IF CallerRef(c) = NoneInt THEN <<>> ELSE CallerHeap(c)[1],
     measure_results |-> mr]

\* The position after a call's initialize: the for loop of run is entered
\* unless there is no operation.
AfterInitialize(os) == IF Len(os) = 0 THEN "ret" ELSE "run"

RunInit ==
    /\ qc \in SeqsUpTo(RunInputOps, MaxRunOps)
    /\ precompute_unitary \in BOOLEAN
    /\ ops = Compile(qc, precompute_unitary)
    /\ prev_index = 0 /\ U_list_index = 0 /\ cpos = 1 /\ cpc = "off"
    /\ mode = "state_vector_simulator"
    /\ state = None
    /\ cbits = 2
    /\ heap = <<<<>>, Zeros>>
    /\ probability = <<1, 1>>
    /\ op_index = 0
    /\ measure_results = <<>>
    /\ measure_ind = 0
    /\ pc = "idle"
    /\ entry = "CircuitSimulator"
    /\ args = MakeArgs(None, <<"none", <<>>>>, <<>>)
    /\ prev = NoPrev
    /\ outcomes = <<>>
    /\ result = <<>>
    /\ AdjOff
    /\ StatOff

\* The measure_results QubitCircuit.run hands to CircuitSimulator.run:
\* `sim.run(state, cbits)` leaves the parameter at its default, None.
QCRunForwarded(mr) == <<>>

\* QubitCircuit.run(state, cbits, measure_results=mr, precompute_unitary),
\* state a ket: a new simulator is built (its initialize receives mr) and
\* its run is called, which initializes it again.  The caller uses one
\* precompute_unitary flag for all its calls.
QCRunCall ==
    /\ pc = "idle"
    /\ \E st \in InitialStates, c \in CallerChoices,
          mr \in BitSeqs(NumMeasurements(qc)) \cup {<<>>} :
          /\ ops' = Compile(qc, precompute_unitary)
          /\ Initialize(st, CallerRef(c), QCRunForwarded(mr), CallerHeap(c), 2)
          /\ args' = MakeArgs(st, c, mr)
          /\ pc' = AfterInitialize(Compile(qc, precompute_unitary))
    /\ mode' = "state_vector_simulator"
    /\ entry' = "QubitCircuit.run"
    /\ prev' = NoPrev
    /\ outcomes' = <<>>
    /\ UNCHANGED <<qc, precompute_unitary, prev_index, U_list_index, cpos, cpc, result>>
    /\ UNCHANGED adjVars
    /\ UNCHANGED resVars
    /\ UNCHANGED statVars

\* CircuitSimulator.run(state, cbits, measure_results) on the simulator at hand.
SimRunCall ==
    /\ pc = "idle"
    /\ \E st \in InitialStates, c \in CallerChoices,
          mr \in BitSeqs(NumMeasurements(qc)) \cup {<<>>} :
          /\ Initialize(st, CallerRef(c), mr, CallerHeap(c), 2)
          /\ args' = MakeArgs(st, c, mr)
    /\ entry' = "CircuitSimulator.run"
    /\ prev' = IF prev.valid /\ prev.args = args' THEN prev ELSE NoPrev
    /\ outcomes' = <<>>
    /\ pc' = AfterInitialize(ops)
    /\ UNCHANGED <<qc, precompute_unitary, ops, prev_index, U_list_index, cpos, cpc,
                   mode, result>>
    /\ UNCHANGED adjVars
    /\ UNCHANGED resVars
    /\ UNCHANGED statVars

\* for _ in range(len(self.ops)): if self.step() is None: break
AfterStep == IF state' = None \/ op_index' = Len(ops) THEN "ret" ELSE "run"

\* The fields of the simulator a step reads and writes; cbits is the content
\* of the list self.cbits refers to.
Session(st, cb, p, oi, mi) ==
    [state |-> st, cbits |-> cb, probability |-> p, op_index |-> oi, measure_ind |-> mi]

CurSession == Session(state, heap[cbits], probability, op_index, measure_ind)

\* The step writes the simulator's fields and, in place, the list self.cbits
\* refers to.
SetSession(t) ==
    /\ state' = t.state
    /\ heap' = [heap EXCEPT ![cbits] = t.cbits]
    /\ probability' = t.probability
    /\ op_index' = t.op_index
    /\ measure_ind' = t.measure_ind

\* The test of step() with the control value left out of it (mapped below).
ApplyGateTest(operation, cb) ==
    \A k \in 1 .. Len(operation.classical_controls) :
        cb[operation.classical_controls[k] + 1] # 0

\* self._evolve_state(U) in state-vector mode: self.state = U * self.state
EvolveKet(U, v) == ApplyFactors(U.factors, GatesOnly(qc), v)

\* The outcomes, were the random choice able to return an outcome of
\* probability 0.
OutcomeChoicesAny(s, operation, mr) ==
    IF mr # <<>> THEN {mr[s.measure_ind + 1]} ELSE {0, 1}

\* The outcomes _apply_measurement can take in state-vector mode: the next
\* forced outcome when measure_results is given, else any outcome numpy's
\* random choice can return (one of nonzero renormalised probability).
OutcomeChoices(s, operation, mr) ==
    IF mr # <<>>
    THEN {mr[s.measure_ind + 1]}
    ELSE LET m == MeasurementCompBasis(operation, s.state)
             total == FracAdd(m.probabilities[1], m.probabilities[2])
         IN  {i \in {0, 1} : FracDiv(m.probabilities[i + 1], total)[1] # 0}

\* _apply_measurement without `self.probability *= probabilities[i]`.
ApplyMeasurementKeepProbability(s, operation, mr, i) ==
    LET m == MeasurementCompBasis(operation, s.state)
    IN  [s EXCEPT
            !.measure_ind = IF mr # <<>> THEN @ + 1 ELSE @,
            !.state = m.states[i + 1],
            !.cbits = IF operation.classical_store # NoneInt
                      THEN [@ EXCEPT ![operation.classical_store + 1] = i]
                      ELSE @]

\* _apply_measurement without `self.measure_ind += 1`.
ApplyMeasurementNoAdvance(s, operation, mr, i) ==
    LET m == MeasurementCompBasis(operation, s.state)
        total == FracAdd(m.probabilities[1], m.probabilities[2])
        p == IF mr # <<>> THEN m.probabilities[i + 1]
             ELSE FracDiv(m.probabilities[i + 1], total)
    IN  [s EXCEPT
            !.probability = FracMul(@, p),
            !.state = m.states[i + 1],
            !.cbits = IF operation.classical_store # NoneInt
                      THEN [@ EXCEPT ![operation.classical_store + 1] = i]
                      ELSE @]

\* _apply_measurement(operation) in state-vector mode, taking outcome i.
ApplyMeasurement(s, operation, mr, i) ==
    LET m == MeasurementCompBasis(operation, s.state)
        total == FracAdd(m.probabilities[1], m.probabilities[2])
        p == IF mr # <<>> THEN m.probabilities[i + 1]
             ELSE FracDiv(m.probabilities[i + 1], total)
    IN  [s EXCEPT
            !.measure_ind = IF mr # <<>> THEN @ + 1 ELSE @,
            !.probability = FracMul(@, p),
            !.state = m.states[i + 1],
            !.cbits = IF operation.classical_store # NoneInt
                      THEN [@ EXCEPT ![operation.classical_store + 1] = i]
                      ELSE @]

\* step() on a (gate, unitary) tuple.
ApplyControlled(s, operation, U, precompute) ==
    IF ApplyGateTest(operation, s.cbits)
    THEN [s EXCEPT !.state = EvolveKet(IF precompute THEN ExpandOperator(U) ELSE U, @)]
    ELSE s

\* step(): one operation of self.ops, then self.op_index += 1.
StepOn(s, op, mr, precompute, i) ==
    LET t == CASE op.kind = "M" -> ApplyMeasurement(s, op.operation, mr, i)
               [] op.kind = "T" -> ApplyControlled(s, op.operation, op.U, precompute)
               [] op.kind = "U" -> [s EXCEPT !.state = EvolveKet(op.U, @)]
    IN  [t EXCEPT !.op_index = @ + 1]

\* step(): a Measurement.
StepMeasurement ==
    /\ pc = "run"
    /\ ops[op_index + 1].kind = "M"
    /\ \E i \in OutcomeChoices(CurSession, ops[op_index + 1].operation, measure_results) :
          /\ SetSession(StepOn(CurSession, ops[op_index + 1], measure_results,
                               precompute_unitary, i))
          /\ outcomes' = Append(outcomes, i)
    /\ pc' = AfterStep
    /\ UNCHANGED <<mode, cbits, measure_results, entry, args, prev, result>>
    /\ UNCHANGED aggVars
    /\ UNCHANGED adjVars
    /\ UNCHANGED resVars
    /\ UNCHANGED statVars

\* step(): a (gate, unitary) tuple, applied when the test on the classical
\* bits passes.
StepControlled ==
    /\ pc = "run"
    /\ ops[op_index + 1].kind = "T"
    /\ SetSession(StepOn(CurSession, ops[op_index + 1], measure_results,
                         precompute_unitary, 0))
    /\ pc' = AfterStep
    /\ UNCHANGED <<mode, cbits, measure_results, entry, args, prev, outcomes, result>>
    /\ UNCHANGED aggVars
    /\ UNCHANGED adjVars
    /\ UNCHANGED resVars
    /\ UNCHANGED statVars

\* step(): a bare unitary.
StepUnitary ==
    /\ pc = "run"
    /\ ops[op_index + 1].kind = "U"
    /\ SetSession(StepOn(CurSession, ops[op_index + 1], measure_results,
                         precompute_unitary, 0))
    /\ pc' = AfterStep
    /\ UNCHANGED <<mode, cbits, measure_results, entry, args, prev, outcomes, result>>
    /\ UNCHANGED aggVars
    /\ UNCHANGED adjVars
    /\ UNCHANGED resVars
    /\ UNCHANGED statVars

\* CircuitResult(final_states, probabilities, cbits) for a single state:
\* cbits holds the list itself, not a copy.
SingleResult(st, p, cbref) ==
    [final_states |-> <<st>>, probabilities |-> <<p>>,
     cbits |-> IF heap[cbref] # <<>> THEN <<cbref>> ELSE <<>>]

\* return CircuitResult(self.state, self.probability, self.cbits)
RunReturn ==
    /\ pc = "ret"
    /\ entry \in {"QubitCircuit.run", "CircuitSimulator.run"}
    /\ result' = SingleResult(state, probability, cbits)
    /\ prev' = IF entry = "CircuitSimulator.run" /\ args.measure_results # <<>>
               THEN [valid |-> TRUE, args |-> args, state |-> state,
                     probability |-> probability, cbits |-> heap[cbits]]
               ELSE NoPrev
    /\ pc' = "idle"
    /\ UNCHANGED <<mode, state, cbits, heap, probability, op_index, measure_results,
                   measure_ind, entry, args, outcomes>>
    /\ UNCHANGED aggVars
    /\ UNCHANGED adjVars
    /\ UNCHANGED resVars
    /\ UNCHANGED statVars

RunNext ==
    \/ QCRunCall
    \/ SimRunCall
    \/ StepMeasurement
    \/ StepControlled
    \/ StepUnitary
    \/ RunReturn

SpecRun == RunInit /\ [][RunNext]_vars

\* The for loop of CircuitSimulator.run from session s with forced outcomes
\* mr: step until the operations are exhausted or a step returns None.
RECURSIVE RunLoop(_, _, _, _)
RunLoop(s, os, mr, precompute) ==
    IF s.op_index = Len(os) THEN s
    ELSE LET op == os[s.op_index + 1]
             i == IF op.kind = "M" THEN mr[s.measure_ind + 1] ELSE 0
             t == StepOn(s, op, mr, precompute, i)
         IN  IF t.state = None THEN t ELSE RunLoop(t, os, mr, precompute)

\* CircuitSimulator.run(st, cb, mr) on a simulator of operation list os, cb
\* being the content of the classical bits after initialize.
ForcedRun(st, cb, os, mr, precompute) ==
    RunLoop(Session(st, cb, <<1, 1>>, 0, 0), os, mr, precompute)

\* The classical bits after initialize for the arguments of a call.
ArgCbits(a) == IF a.cbits = <<>> THEN Zeros ELSE a.cbits

(***************************************************************************)
(* Claims about run                                                        *)
(***************************************************************************)
\* C1: QubitCircuit.run with a ket and a non-empty measure_results forces the
\* k-th measurement executed to take outcome measure_results[k], so the
\* final state it returns is the one CircuitSimulator.run returns for that
\* forced-outcome sequence.
C1_QubitCircuitRunForced ==
    (pc = "ret" /\ entry = "QubitCircuit.run" /\ args.measure_results # <<>>) =>
        /\ outcomes = SubSeq(args.measure_results, 1, Len(outcomes))
        /\ state = ForcedRun(args.state, ArgCbits(args), ops,
                             args.measure_results, precompute_unitary).state

\* C2: two successive CircuitSimulator.run calls on one simulator with equal
\* initial state, equal initial classical bits and the same non-empty
\* forced-outcome sequence return equal final state, probability and
\* classical bits, whatever ran before them.
C2_ForcedRunsRepeat ==
    (pc = "ret" /\ entry = "CircuitSimulator.run" /\ prev.valid) =>
        /\ prev.args = args
        /\ args.measure_results # <<>>
        /\ prev.state = state
        /\ prev.probability = probability
        /\ prev.cbits = heap[cbits]

\* The second of two equal forced runs has ended, after a measurement of
\* probability 1/2 that wrote a classical bit.
C2_Witness ==
    /\ pc = "ret" /\ entry = "CircuitSimulator.run" /\ prev.valid
    /\ outcomes # <<>>
    /\ probability = <<1, 2>>
    /\ heap[cbits] # ArgCbits(args)

\* The value of the classical controls of a gate read as an integer, the
\* first listed bit being the lowest bit.
RECURSIVE ControlsValue(_, _)
ControlsValue(cc, cb) ==
    IF cc = <<>> THEN 0
    ELSE cb[Head(cc) + 1] + 2 * ControlsValue(Tail(cc), cb)

\* The control value a gate requires: control_value, or all ones when it is
\* not specified.
RequiredValue(operation) ==
    IF operation.control_value = NoneInt
    THEN Pow2(Len(operation.classical_controls)) - 1
    ELSE operation.control_value

\* C7: at the step of a classically controlled gate the unitary is applied
\* if and only if the classical controls, read as an integer, equal the
\* gate's required control value; otherwise the state is left unchanged.
C7_ControlValueDecides ==
    [][(pc = "run" /\ ops[op_index + 1].kind = "T") =>
          state' = IF ControlsValue(ops[op_index + 1].operation.classical_controls,
                                    heap[cbits])
                      = RequiredValue(ops[op_index + 1].operation)
                   THEN EvolveKet(ExpandOperator(ops[op_index + 1].U), state)
                   ELSE state]_vars

(***************************************************************************)
(* CircuitSimulator.run_statistics                                         *)
(***************************************************************************)
\* Largest number of operations in a circuit given to run_statistics.
MaxStatOps == 4

\* The circuits given to run_statistics: a Hadamard, a CNOT, a gate
\* controlled on classical bit 0, and two measurements.
StatInputOps ==
    { SimGate("SNOT", <<0>>, <<>>, <<>>, NoneInt),
      SimGate("CNOT", <<1>>, <<0>>, <<>>, NoneInt),
      SimGate("X", <<0>>, <<>>, <<0>>, NoneInt),
      SimMeasurement("M0", <<0>>, 0),
      SimMeasurement("M1", <<1>>, 1) }

\* The k-th (0-based) tuple of product("01", repeat=n), as integers.
RECURSIVE Combination(_, _)
Combination(k, n) ==
    IF n = 0 THEN <<>>
    ELSE Append(Combination(k \div 2, n - 1), k % 2)

\* The simulator as constructed by CircuitSimulator(qc, state, cbits, ...,
\* mode="state_vector_simulator", precompute_unitary) with run_statistics
\* (state, cbits) about to be called on it; the caller's list, if any, is at
\* address 1.
StatInit ==
    /\ qc \in SeqsUpTo(StatInputOps, MaxStatOps)
    /\ precompute_unitary \in BOOLEAN
    /\ ops = Compile(qc, precompute_unitary)
    /\ prev_index = 0 /\ U_list_index = 0 /\ cpos = 1 /\ cpc = "off"
    /\ mode = "state_vector_simulator"
    /\ \E st \in InitialStates, c \in CallerChoices :
          /\ state = st
          /\ heap = IF c[1] = "none" THEN <<<<>>, Zeros>> ELSE <<c[2]>>
          /\ cbits = IF c[1] = "none" THEN 2 ELSE 1
          /\ args = [state |-> st, cbits |-> c[2], measure_results |-> <<>>]
    /\ probability = <<1, 1>>
    /\ op_index = 0
    /\ measure_results = <<>>
    /\ measure_ind = 0
    /\ pc = "stat"
    /\ entry = "run_statistics"
    /\ prev = NoPrev
    /\ outcomes = <<>>
    /\ result = <<>>
    /\ combo = 0
    /\ states = <<>>
    /\ probabilities = <<>>
    /\ cbits_results = <<>>
    /\ starts = <<>>
    /\ finals = <<>>
    /\ AdjOff
    /\ ResOff

\* for results in product("01", repeat=num_measurements):
\*     run_result = self.run(state, cbits=cbits, measure_results=results)
\* up to the end of run's initialize.
StatReplay ==
    /\ pc = "stat"
    /\ combo < Pow2(NumMeasurements(qc))
    /\ Initialize(args.state, IF args.cbits = <<>> THEN NoneInt ELSE 1,
                  Combination(combo, NumMeasurements(qc)), heap, Len(heap) + 1)
    /\ starts' = Append(starts, heap'[cbits'])
    /\ outcomes' = <<>>
    /\ combo' = combo + 1
    /\ pc' = AfterInitialize(ops)
    /\ UNCHANGED <<mode, entry, args, prev, result,
                   states, probabilities, cbits_results, finals>>
    /\ UNCHANGED aggVars
    /\ UNCHANGED adjVars
    /\ UNCHANGED resVars

\* run returns CircuitResult(self.state, self.probability, self.cbits);
\* states.append(final_state); probabilities.append(probability);
\* cbits_results.append(self.cbits)
StatCollect ==
    /\ pc = "ret"
    /\ entry = "run_statistics"
    /\ states' = Append(states, SingleResult(state, probability, cbits).final_states[1])
    /\ probabilities' =
            Append(probabilities, SingleResult(state, probability, cbits).probabilities[1])
    /\ cbits_results' = Append(cbits_results, cbits)
    /\ finals' = Append(finals, heap[cbits])
    /\ pc' = "stat"
    /\ UNCHANGED <<mode, state, cbits, heap, probability, op_index, measure_results,
                   measure_ind, entry, args, prev, outcomes, result, combo, starts>>
    /\ UNCHANGED aggVars
    /\ UNCHANGED adjVars
    /\ UNCHANGED resVars

\* The positions of the list whose state is not None.
RECURSIVE Retained(_, _)
Retained(sts, k) ==
    IF k > Len(sts) THEN <<>>
    ELSE (IF sts[k] # None THEN <<k>> ELSE <<>>) \o Retained(sts, k + 1)

\* CircuitResult(final_states, probabilities, cbits) for lists: the entries
\* whose state is None are dropped.
ListResult(sts, ps, cbs) ==
    LET inds == Retained(sts, 1)
    IN  [final_states |-> [j \in 1 .. Len(inds) |-> sts[inds[j]]],
         probabilities |-> [j \in 1 .. Len(inds) |-> ps[inds[j]]],
         cbits |-> IF cbs # <<>> THEN [j \in 1 .. Len(inds) |-> cbs[inds[j]]] ELSE <<>>]

\* return CircuitResult(states, probabilities, cbits_results)
StatReturn ==
    /\ pc = "stat"
    /\ combo = Pow2(NumMeasurements(qc))
    /\ result' = ListResult(states, probabilities, cbits_results)
    /\ pc' = "done"
    /\ UNCHANGED <<mode, state, cbits, heap, probability, op_index, measure_results,
                   measure_ind, entry, args, prev, outcomes>>
    /\ UNCHANGED statVars
    /\ UNCHANGED aggVars
    /\ UNCHANGED adjVars
    /\ UNCHANGED resVars

StatNext ==
    \/ StatReplay
    \/ StepMeasurement
    \/ StepControlled
    \/ StepUnitary
    \/ StatCollect
    \/ StatReturn

SpecStat == StatInit /\ [][StatNext]_vars

(***************************************************************************)
(* Claims about run_statistics                                             *)
(***************************************************************************)
\* C3: in run_statistics called with a caller-supplied classical-bit vector
\* of the declared length, every replay starts with the classical bits equal
\* to the values originally supplied, and the caller's vector is not
\* modified.
C3_ReplaysStartFromSupplied ==
    (entry = "run_statistics" /\ args.cbits # <<>>) =>
        /\ \A k \in 1 .. Len(starts) : starts[k] = args.cbits
        /\ heap[1] = args.cbits

\* C4: in the Result of run_statistics the classical-bit vector at position
\* j is the final classical-bit vector of the replay that produced the state
\* and probability at position j, and no two positions hold the same shared
\* vector.
C4_ResultCbitsPerBranch ==
    (pc = "done" /\ entry = "run_statistics") =>
        LET inds == Retained(states, 1)
        IN  /\ Len(result.cbits) = Len(inds)
            /\ \A j \in 1 .. Len(inds) : heap[result.cbits[j]] = finals[inds[j]]
            /\ \A i, j \in 1 .. Len(inds) :
                  i # j => result.cbits[i] # result.cbits[j]

\* The sum of a sequence of fractions.
RECURSIVE FracSum(_)
FracSum(ps) ==
    IF ps = <<>> THEN <<0, 1>> ELSE FracAdd(Head(ps), FracSum(Tail(ps)))

\* C5: in state-vector mode the probabilities of the branches in the Result
\* of run_statistics sum to 1.
C5_ProbabilitiesSumToOne ==
    (pc = "done" /\ entry = "run_statistics") =>
        FracSum(result.probabilities) = <<1, 1>>

\* The replay of outcome combination k (0-based) as a forced run that starts
\* from the state and the classical bits the call was given.
ReplayOf(k) ==
    ForcedRun(args.state, ArgCbits(args), ops,
              Combination(k, NumMeasurements(qc)), precompute_unitary)

\* The outcome combinations, in order, in which every forced outcome has
\* nonzero probability.
RECURSIVE PossibleFrom(_)
PossibleFrom(k) ==
    IF k >= Pow2(NumMeasurements(qc)) THEN <<>>
    ELSE (IF ReplayOf(k).state # None THEN <<k>> ELSE <<>>) \o PossibleFrom(k + 1)

\* H(q0), CNOT(control q0, target q1), measure q0 into c0, q1 into c1.
BellProgram ==
    << SimGate("SNOT", <<0>>, <<>>, <<>>, NoneInt),
       SimGate("CNOT", <<1>>, <<0>>, <<>>, NoneInt),
       SimMeasurement("M0", <<0>>, 0),
       SimMeasurement("M1", <<1>>, 1) >>

\* C6: run_statistics returns exactly one branch for each outcome
\* combination in which every forced outcome has nonzero probability and
\* none for the others; for the Bell program from |00> these are two
\* branches of probability 1/2 with classical bits (0,0) and (1,1).
C6_OneBranchPerPossibleCombination ==
    (pc = "done" /\ entry = "run_statistics") =>
        LET possible == PossibleFrom(0)
        IN  /\ Len(result.final_states) = Len(possible)
            /\ \A j \in 1 .. Len(possible) :
                  /\ result.final_states[j] = ReplayOf(possible[j]).state
                  /\ result.probabilities[j] = ReplayOf(possible[j]).probability
            /\ (qc = BellProgram /\ args.state = [b \in 1 .. Dim |-> IF b = 1 THEN 1 ELSE 0]) =>
                  /\ result.probabilities = << <<1, 2>>, <<1, 2>> >>
                  /\ [j \in 1 .. Len(result.cbits) |->
                        SubSeq(heap[result.cbits[j]], 1, 2)] = << <<0, 0>>, <<1, 1>> >>

(***************************************************************************)
(* QubitCircuit.resolve_gates: the rewrite rules                           *)
(*                                                                         *)
(* Angles are integers counting eighths of pi, so that np.pi is 8.  A gate *)
(* object that exists before the call carries a field obj, its identity;   *)
(* Gate(...) creates an object without it.                                 *)
(***************************************************************************)
\* np.pi
Pi == 8
half_pi == Pi \div 2
quarter_pi == Pi \div 4

\* _gate_IGNORED (also _gate_RX, _gate_RY, _gate_RZ, _gate_CNOT, _gate_IDLE
\* and _gate_basis_2q): temp_resolved.append(gate)
gate_IGNORED(gate) == <<gate>>

gate_SQRTNOT(gate) ==
    << Gate("GLOBALPHASE", <<>>, <<>>, Pi \div 4),
       Gate("RX", gate.targets, <<>>, Pi \div 2) >>

gate_SNOT(gate) ==
    << Gate("GLOBALPHASE", <<>>, <<>>, half_pi),
       Gate("RY", gate.targets, <<>>, half_pi),
       Gate("RX", gate.targets, <<>>, Pi) >>

gate_PHASEGATE(gate) ==
    << Gate("GLOBALPHASE", <<>>, <<>>, gate.arg_value \div 2),
       Gate("RZ", gate.targets, <<>>, gate.arg_value) >>

gate_CSIGN(gate) ==
    << Gate("RY", gate.targets, <<>>, half_pi),
       Gate("RX", gate.targets, <<>>, Pi),
       Gate("CNOT", gate.targets, gate.controls, NoneInt),
       Gate("RY", gate.targets, <<>>, half_pi),
       Gate("RX", gate.targets, <<>>, Pi),
       Gate("GLOBALPHASE", <<>>, <<>>, Pi) >>

gate_SWAP(gate) ==
    << Gate("CNOT", <<gate.targets[1]>>, <<gate.targets[2]>>, NoneInt),
       Gate("CNOT", <<gate.targets[2]>>, <<gate.targets[1]>>, NoneInt),
       Gate("CNOT", <<gate.targets[1]>>, <<gate.targets[2]>>, NoneInt) >>

gate_ISWAP(gate) ==
    << Gate("CNOT", <<gate.targets[1]>>, <<gate.targets[2]>>, NoneInt),
       Gate("CNOT", <<gate.targets[2]>>, <<gate.targets[1]>>, NoneInt),
       Gate("CNOT", <<gate.targets[1]>>, <<gate.targets[2]>>, NoneInt),
       Gate("RZ", <<gate.targets[1]>>, <<>>, half_pi),
       Gate("RZ", <<gate.targets[2]>>, <<>>, half_pi),
       Gate("RY", <<gate.targets[1]>>, <<>>, half_pi),
       Gate("RX", <<gate.targets[1]>>, <<>>, Pi),
       Gate("CNOT", <<gate.targets[1]>>, <<gate.targets[2]>>, NoneInt),
       Gate("RY", <<gate.targets[1]>>, <<>>, half_pi),
       Gate("RX", <<gate.targets[1]>>, <<>>, Pi),
       Gate("GLOBALPHASE", <<>>, <<>>, Pi),
       Gate("GLOBALPHASE", <<>>, <<>>, half_pi) >>

gate_FREDKIN(gate) ==
    LET t0 == <<gate.targets[1]>>
        t1 == <<gate.targets[2]>>
        c == gate.controls
    IN  << Gate("CNOT", t0, t1, NoneInt),
           Gate("RZ", t1, <<>>, Pi),
           Gate("RX", t1, <<>>, Pi \div 2),
           Gate("RZ", t1, <<>>, (-Pi) \div 2),
           Gate("RX", t1, <<>>, Pi \div 2),
           Gate("RZ", t1, <<>>, Pi),
           Gate("CNOT", t1, t0, NoneInt),
           Gate("RZ", t1, <<>>, (-Pi) \div 4),
           Gate("CNOT", t1, c, NoneInt),
           Gate("RZ", t1, <<>>, Pi \div 4),
           Gate("CNOT", t1, t0, NoneInt),
           Gate("RZ", t0, <<>>, Pi \div 4),
           Gate("RZ", t1, <<>>, (-Pi) \div 4),
           Gate("CNOT", t1, c, NoneInt),
           Gate("CNOT", t0, c, NoneInt),
           Gate("RZ", c, <<>>, Pi \div 4),
           Gate("RZ", t0, <<>>, (-Pi) \div 4),
           Gate("CNOT", t0, c, NoneInt),
           Gate("RZ", t1, <<>>, (-3 * Pi) \div 4),
           Gate("RX", t1, <<>>, Pi \div 2),
           Gate("RZ", t1, <<>>, (-Pi) \div 2),
           Gate("RX", t1, <<>>, Pi \div 2),
           Gate("RZ", t1, <<>>, Pi),
           Gate("CNOT", t0, t1, NoneInt),
           Gate("GLOBALPHASE", <<>>, <<>>, Pi \div 8) >>

gate_TOFFOLI(gate) ==
    LET c0 == <<gate.controls[1]>>
        c1 == <<gate.controls[2]>>
        t == gate.targets
    IN  << Gate("GLOBALPHASE", <<>>, <<>>, Pi \div 8),
           Gate("RZ", c1, <<>>, half_pi),
           Gate("RZ", c0, <<>>, quarter_pi),
           Gate("CNOT", c1, c0, NoneInt),
           Gate("RZ", c1, <<>>, -quarter_pi),
           Gate("CNOT", c1, c0, NoneInt),
           Gate("GLOBALPHASE", <<>>, <<>>, half_pi),
           Gate("RY", t, <<>>, half_pi),
           Gate("RX", t, <<>>, Pi),
           Gate("RZ", c1, <<>>, -quarter_pi),
           Gate("RZ", t, <<>>, quarter_pi),
           Gate("CNOT", t, c0, NoneInt),
           Gate("RZ", t, <<>>, -quarter_pi),
           Gate("CNOT", t, c1, NoneInt),
           Gate("RZ", t, <<>>, quarter_pi),
           Gate("CNOT", t, c0, NoneInt),
           Gate("RZ", t, <<>>, -quarter_pi),
           Gate("CNOT", t, c1, NoneInt),
           Gate("GLOBALPHASE", <<>>, <<>>, half_pi),
           Gate("RY", t, <<>>, half_pi),
           Gate("RX", t, <<>>, Pi) >>

gate_GLOBALPHASE(gate) ==
    << Gate(gate.name, gate.targets, gate.controls, gate.arg_value) >>

\* The names with a _gate_ method that appends gates, and those bound to
\* _gate_NOTIMPLEMENTED.
IgnoredNames == {"RX", "RY", "RZ", "CNOT", "IDLE"}
RuleNames == {"SQRTNOT", "SNOT", "PHASEGATE", "CSIGN", "SWAP", "ISWAP",
              "FREDKIN", "TOFFOLI", "GLOBALPHASE"}
NotImplementedNames == {"BERKELEY", "SWAPalpha", "SQRTSWAP", "SQRTISWAP"}

\* _resolve_to_universal(gate, temp_resolved, basis_1q, basis_2q): the
\* method the dispatch selects ("" when getattr raises AttributeError).
ResolveMethod(gate, b2q) ==
    IF \E k \in 1 .. Len(b2q) : b2q[k] = gate.name THEN "basis_2q"
    ELSE IF gate.name = "SWAP" /\ \E k \in 1 .. Len(b2q) : b2q[k] = "ISWAP"
         THEN "IGNORED"
    ELSE IF gate.name \in IgnoredNames THEN "IGNORED"
    ELSE IF gate.name \in RuleNames THEN gate.name
    ELSE IF gate.name \in NotImplementedNames THEN "NOTIMPLEMENTED"
    ELSE ""

\* The gates the selected method appends to temp_resolved.
ResolveToUniversal(gate, b2q) ==
    LET method == ResolveMethod(gate, b2q)
    IN  CASE method \in {"basis_2q", "IGNORED"} -> gate_IGNORED(gate)
          [] method = "SQRTNOT" -> gate_SQRTNOT(gate)
          [] method = "SNOT" -> gate_SNOT(gate)
          [] method = "PHASEGATE" -> gate_PHASEGATE(gate)
          [] method = "CSIGN" -> gate_CSIGN(gate)
          [] method = "SWAP" -> gate_SWAP(gate)
          [] method = "ISWAP" -> gate_ISWAP(gate)
          [] method = "FREDKIN" -> gate_FREDKIN(gate)
          [] method = "TOFFOLI" -> gate_TOFFOLI(gate)
          [] method = "GLOBALPHASE" -> gate_GLOBALPHASE(gate)

(***************************************************************************)
(* resolve_gates: the two-qubit basis transformers                         *)
(***************************************************************************)
\* The gates appended to qc_temp.gates for one gate of temp_resolved.
basis_CSIGN_gate(gate) ==
    IF gate.name = "CNOT"
    THEN << Gate("RY", gate.targets, <<>>, -half_pi),
            Gate("CSIGN", gate.targets, gate.controls, NoneInt),
            Gate("RY", gate.targets, <<>>, half_pi) >>
    ELSE <<gate>>

basis_ISWAP_gate(gate) ==
    IF gate.name = "CNOT"
    THEN << Gate("GLOBALPHASE", <<>>, <<>>, quarter_pi),
            Gate("ISWAP", <<gate.controls[1], gate.targets[1]>>, <<>>, NoneInt),
            Gate("RZ", gate.targets, <<>>, -half_pi),
            Gate("RY", gate.controls, <<>>, -half_pi),
            Gate("RZ", gate.controls, <<>>, half_pi),
            Gate("ISWAP", <<gate.controls[1], gate.targets[1]>>, <<>>, NoneInt),
            Gate("RY", gate.targets, <<>>, -half_pi),
            Gate("RZ", gate.targets, <<>>, half_pi) >>
    ELSE IF gate.name = "SWAP"
    THEN << Gate("GLOBALPHASE", <<>>, <<>>, quarter_pi),
            Gate("ISWAP", gate.targets, <<>>, NoneInt),
            Gate("RX", <<gate.targets[1]>>, <<>>, -half_pi),
            Gate("ISWAP", gate.targets, <<>>, NoneInt),
            Gate("RX", <<gate.targets[2]>>, <<>>, -half_pi),
            Gate("ISWAP", <<gate.targets[2], gate.targets[1]>>, <<>>, NoneInt),
            Gate("RX", <<gate.targets[1]>>, <<>>, -half_pi) >>
    ELSE <<gate>>

basis_SQRTSWAP_gate(gate) ==
    IF gate.name = "CNOT"
    THEN << Gate("RY", gate.targets, <<>>, half_pi),
            Gate("SQRTSWAP", <<gate.controls[1], gate.targets[1]>>, <<>>, NoneInt),
            Gate("RZ", gate.controls, <<>>, Pi),
            Gate("SQRTSWAP", <<gate.controls[1], gate.targets[1]>>, <<>>, NoneInt),
            Gate("RZ", gate.targets, <<>>, -half_pi),
            Gate("RY", gate.targets, <<>>, -half_pi),
            Gate("RZ", gate.controls, <<>>, -half_pi) >>
    ELSE <<gate>>

basis_SQRTISWAP_gate(gate) ==
    IF gate.name = "CNOT"
    THEN << Gate("RY", gate.controls, <<>>, -half_pi),
            Gate("RX", gate.controls, <<>>, half_pi),
            Gate("RX", gate.targets, <<>>, -half_pi),
            Gate("SQRTISWAP", <<gate.controls[1], gate.targets[1]>>, <<>>, NoneInt),
            Gate("RX", gate.controls, <<>>, Pi),
            Gate("SQRTISWAP", <<gate.controls[1], gate.targets[1]>>, <<>>, NoneInt),
            Gate("RY", gate.controls, <<>>, half_pi),
            Gate("GLOBALPHASE", <<>>, <<>>, quarter_pi),
            Gate("RZ", gate.controls, <<>>, Pi),
            Gate("GLOBALPHASE", <<>>, <<>>, 3 * half_pi) >>
    ELSE <<gate>>

\* The concatenation of f(gs[k]) for k = from .. Len(gs).
RECURSIVE FlatMap(_, _, _)
FlatMap(f(_), gs, from) ==
    IF from > Len(gs) THEN <<>>
    ELSE f(gs[from]) \o FlatMap(f, gs, from + 1)

InSeq(x, xs) == \E k \in 1 .. Len(xs) : xs[k] = x

\* for basis_unit in ["CSIGN", "ISWAP", "SQRTSWAP", "SQRTISWAP"]: the first
\* one in basis_2q ("" when there is no match).
BasisUnit(b2q) ==
    IF InSeq("CSIGN", b2q) THEN "CSIGN"
    ELSE IF InSeq("ISWAP", b2q) THEN "ISWAP"
    ELSE IF InSeq("SQRTSWAP", b2q) THEN "SQRTSWAP"
    ELSE IF InSeq("SQRTISWAP", b2q) THEN "SQRTISWAP"
    ELSE ""

\* qc_temp.gates after the match loop: _resolve_2q_basis appends the
\* transformed gates to qc_temp.gates; without a match qc_temp.gates is
\* replaced by temp_resolved.
Resolve2qBasis(qct, tr, b2q) ==
    LET unit == BasisUnit(b2q)
    IN  CASE unit = "CSIGN" -> qct \o FlatMap(basis_CSIGN_gate, tr, 1)
          [] unit = "ISWAP" -> qct \o FlatMap(basis_ISWAP_gate, tr, 1)
          [] unit = "SQRTSWAP" -> qct \o FlatMap(basis_SQRTSWAP_gate, tr, 1)
          [] unit = "SQRTISWAP" -> qct \o FlatMap(basis_SQRTISWAP_gate, tr, 1)
          [] unit = "" -> tr

\* if len(basis_1q) == 2: the gates appended for one gate of temp_resolved.
Basis1qGate(gate, b1q) ==
    IF gate.name = "RX" /\ ~InSeq("RX", b1q)
    THEN << Gate("RY", gate.targets, <<>>, -half_pi),
            Gate("RZ", gate.targets, <<>>, gate.arg_value),
            Gate("RY", gate.targets, <<>>, half_pi) >>
    ELSE IF gate.name = "RY" /\ ~InSeq("RY", b1q)
    THEN << Gate("RZ", gate.targets, <<>>, -half_pi),
            Gate("RX", gate.targets, <<>>, gate.arg_value),
            Gate("RZ", gate.targets, <<>>, half_pi) >>
    ELSE IF gate.name = "RZ" /\ ~InSeq("RZ", b1q)
    THEN << Gate("RX", gate.targets, <<>>, -half_pi),
            Gate("RY", gate.targets, <<>>, gate.arg_value),
            Gate("RX", gate.targets, <<>>, half_pi) >>
    ELSE <<gate>>

RECURSIVE Resolve1qFrom(_, _, _)
Resolve1qFrom(gs, b1q, from) ==
    IF from > Len(gs) THEN <<>>
    ELSE Basis1qGate(gs[from], b1q) \o Resolve1qFrom(gs, b1q, from + 1)

\* qc_temp.gates after the one-qubit pass.
Resolve1qBasis(qct, b1q) ==
    IF Len(b1q) = 2 THEN Resolve1qFrom(qct, b1q, 1) ELSE qct


(***************************************************************************)
(* resolve_gates: the call                                                 *)
(***************************************************************************)
\* Largest number of operations in a circuit given to resolve_gates, and
\* largest number of tokens in a basis list.
MaxResGates == 2
MaxBasisLen == 3

basis_1q_valid == <<"RX", "RY", "RZ", "IDLE">>
basis_2q_valid == <<"CNOT", "CSIGN", "ISWAP", "SQRTSWAP", "SQRTISWAP">>

\* The tokens a basis is made of: the valid ones and one that is not.
BasisTokens == basis_2q_valid \o basis_1q_valid \o <<"U3">>

\* The basis arguments: a list of distinct tokens, or a single token that is
\* not wrapped in a list.
ListBasis(tokens) == [is_list |-> TRUE, tokens |-> tokens]
TokenBasis(token) == [is_list |-> FALSE, tokens |-> <<token>>]
ResBases ==
    {ListBasis(SelectSeq(BasisTokens, LAMBDA t : t \in S)) :
        S \in {T \in SUBSET {BasisTokens[k] : k \in 1 .. Len(BasisTokens)} :
                  Cardinality(T) <= MaxBasisLen}}
    \cup {TokenBasis(BasisTokens[k]) : k \in 1 .. Len(BasisTokens)}

\* The operations a circuit handed to resolve_gates is drawn from: gates
\* kept as they are, gates with a rewrite rule, a gate bound to
\* _gate_NOTIMPLEMENTED, a name without a rule and a measurement.
ResInputGates ==
    { Gate("X", <<0>>, <<>>, NoneInt),
      Gate("Y", <<0>>, <<>>, NoneInt),
      Gate("Z", <<0>>, <<>>, NoneInt),
      Gate("RZ", <<0>>, <<>>, quarter_pi),
      Gate("IDLE", <<0>>, <<>>, NoneInt),
      Gate("SNOT", <<0>>, <<>>, NoneInt),
      Gate("CNOT", <<1>>, <<0>>, NoneInt),
      Gate("CSIGN", <<1>>, <<0>>, NoneInt),
      Gate("SWAP", <<0, 1>>, <<>>, NoneInt),
      Gate("ISWAP", <<0, 1>>, <<>>, NoneInt),
      Gate("SQRTSWAP", <<0, 1>>, <<>>, NoneInt),
      Gate("T", <<0>>, <<>>, NoneInt),
      MeasurementOp("M0", <<0>>) }


ResInit ==
    /\ gates \in {Objects(gs) : gs \in SeqsUpTo(ResInputGates, MaxResGates)}
    /\ basis \in ResBases
    /\ basis_1q = <<>>
    /\ basis_2q = <<>>
    /\ temp_resolved = <<>>
    /\ qc_temp = <<>>
    /\ ridx = 1
    /\ rpc = "call"
    /\ rerr = <<>>
    /\ mat = <<>>
    /\ midx = 0
    /\ temp = <<>> /\ gidx = 1 /\ ends = <<>> /\ apc = "off"
    /\ AggOff
    /\ mode = "" /\ state = <<>> /\ cbits = NoneInt /\ heap = <<>>
    /\ probability = <<1, 1>> /\ op_index = 0 /\ measure_results = <<>>
    /\ measure_ind = 0 /\ pc = "off" /\ entry = "" /\ args = <<>>
    /\ prev = <<>> /\ outcomes = <<>> /\ result = <<>>
    /\ combo = 0 /\ states = <<>> /\ probabilities = <<>>
    /\ cbits_results = <<>> /\ starts = <<>> /\ finals = <<>>

\* The validation of the basis argument without the test on the number of
\* one-qubit generators.
BasisErrorNoCount(b) ==
    LET invalid == SelectSeq(b.tokens,
                       LAMBDA t : ~InSeq(t, basis_2q_valid) /\ ~InSeq(t, basis_1q_valid))
    IN  IF invalid # <<>>
        THEN Raised("NotImplementedError", <<invalid[1], " is not a valid basis gate">>)
        ELSE <<>>

\* The exception the validation of the basis argument raises (<<>> when the
\* basis is accepted).
BasisError(b) ==
    LET invalid == SelectSeq(b.tokens,
                       LAMBDA t : ~InSeq(t, basis_2q_valid) /\ ~InSeq(t, basis_1q_valid))
        ones == SelectSeq(b.tokens, LAMBDA t : InSeq(t, basis_1q_valid))
    IN  IF b.is_list
        THEN IF invalid # <<>>
             THEN Raised("NotImplementedError",
                         <<invalid[1], " is not a valid basis gate">>)
             ELSE IF Len(ones) = 1
             THEN Raised("ValueError",
                         <<"Not sufficient single-qubit gates in basis">>)
             ELSE <<>>
        ELSE IF InSeq(b.tokens[1], basis_2q_valid) THEN <<>>
             ELSE Raised("ValueError",
                         <<b.tokens[1], " is not a valid two-qubit basis gate">>)

\* basis_1q and basis_2q for an accepted basis.
Basis1q(b) ==
    LET ones == SelectSeq(b.tokens, LAMBDA t : InSeq(t, basis_1q_valid))
    IN  IF b.is_list /\ Len(ones) # 0 THEN ones ELSE <<"RX", "RY", "RZ">>
Basis2q(b) ==
    IF b.is_list THEN SelectSeq(b.tokens, LAMBDA t : InSeq(t, basis_2q_valid))
    ELSE b.tokens

\* num_measurements > 0, and the test looking at the first operation only.
HasMeasurementFirst(gs) == gs # <<>> /\ gs[1].cls = "Measurement"
HasMeasurement(gs) == \E k \in 1 .. Len(gs) : gs[k].cls = "Measurement"

\* The variables of the other operations, which resolve_gates leaves alone.
ResFrame ==
    /\ UNCHANGED <<temp, gidx, ends, apc>>
    /\ UNCHANGED aggVars
    /\ UNCHANGED simVars
    /\ UNCHANGED statVars

\* if num_measurements > 0: raise NotImplementedError(...)
ResRaiseMeasurement ==
    /\ rpc = "call"
    /\ HasMeasurement(gates)
    /\ rerr' = Raised("NotImplementedError",
                      <<"adjacent_gates must be called before measurements are added to the circuit">>)
    /\ rpc' = "raised"
    /\ UNCHANGED <<gates, basis, basis_1q, basis_2q, temp_resolved, qc_temp, ridx,
                   mat, midx>>
    /\ ResFrame

\* The basis argument is rejected.
ResRaiseBasis ==
    /\ rpc = "call"
    /\ ~HasMeasurement(gates)
    /\ BasisError(basis) # <<>>
    /\ rerr' = BasisError(basis)
    /\ rpc' = "raised"
    /\ UNCHANGED <<gates, basis, basis_1q, basis_2q, temp_resolved, qc_temp, ridx,
                   mat, midx>>
    /\ ResFrame

\* The basis argument is accepted: basis_1q and basis_2q are set.
ResBasis ==
    /\ rpc = "call"
    /\ ~HasMeasurement(gates)
    /\ BasisError(basis) = <<>>
    /\ basis_1q' = Basis1q(basis)
    /\ basis_2q' = Basis2q(basis)
    /\ rpc' = "gates"
    /\ UNCHANGED <<gates, basis, temp_resolved, qc_temp, ridx, rerr, mat, midx>>
    /\ ResFrame

\* if gate.name in ("X", "Y", "Z"): gate = Gate("R" + gate.name, ...)
RotationOf(gate) ==
    IF gate.name \in {"X", "Y", "Z"}
    THEN Gate(CASE gate.name = "X" -> "RX" [] gate.name = "Y" -> "RY"
                [] gate.name = "Z" -> "RZ",
              gate.targets, <<>>, Pi)
    ELSE gate

\* qc_temp.gates.append(Gate("GLOBALPHASE", arg_value=np.pi / 2)) for an X,
\* Y or Z gate: the phase goes to qc_temp.gates, the rotation to temp_resolved.
PhaseToQcTemp(gate, qct, tr) ==
    [qc_temp |-> IF gate.name \in {"X", "Y", "Z"}
                 THEN Append(qct, Gate("GLOBALPHASE", <<>>, <<>>, Pi \div 2))
                 ELSE qct,
     temp_resolved |-> tr]

\* One iteration of `for gate in self.gates` that resolves its gate.
ResGate ==
    /\ rpc = "gates" /\ ridx <= Len(gates)
    /\ ResolveMethod(RotationOf(gates[ridx]), basis_2q) \notin {"", "NOTIMPLEMENTED"}
    /\ LET after == PhaseToQcTemp(gates[ridx], qc_temp, temp_resolved)
       IN  /\ qc_temp' = after.qc_temp
           /\ temp_resolved' = after.temp_resolved
                   \o ResolveToUniversal(RotationOf(gates[ridx]), basis_2q)
    /\ ridx' = ridx + 1
    /\ UNCHANGED <<gates, basis, basis_1q, basis_2q, rpc, rerr, mat, midx>>
    /\ ResFrame

\* The message of the NotImplementedError an unresolvable gate ends in.
UnresolvedMessage(gate, method) ==
    IF method = "" THEN <<"Gate ", gate.name, " cannot be resolved.">>
    ELSE <<"Cannot be resolved in this basis">>

\* One iteration whose gate cannot be resolved: _gate_NOTIMPLEMENTED raises
\* NotImplementedError, and the AttributeError of a missing _gate_ method is
\* turned into NotImplementedError.
ResRaiseGate ==
    /\ rpc = "gates" /\ ridx <= Len(gates)
    /\ ResolveMethod(RotationOf(gates[ridx]), basis_2q) \in {"", "NOTIMPLEMENTED"}
    /\ rerr' = Raised("NotImplementedError",
                      UnresolvedMessage(gates[ridx],
                          ResolveMethod(RotationOf(gates[ridx]), basis_2q)))
    /\ rpc' = "raised"
    /\ UNCHANGED <<gates, basis, basis_1q, basis_2q, temp_resolved, qc_temp, ridx,
                   mat, midx>>
    /\ ResFrame

\* The for loop over self.gates has ended: the match loop over the
\* two-qubit basis units.
Res2q ==
    /\ rpc = "gates" /\ ridx > Len(gates)
    /\ qc_temp' = Resolve2qBasis(qc_temp, temp_resolved, basis_2q)
    /\ rpc' = "1q"
    /\ UNCHANGED <<gates, basis, basis_1q, basis_2q, temp_resolved, ridx, rerr,
                   mat, midx>>
    /\ ResFrame

\* if len(basis_1q) == 2: ...
Res1q ==
    /\ rpc = "1q"
    /\ temp_resolved' = IF Len(basis_1q) = 2 THEN qc_temp ELSE temp_resolved
    /\ qc_temp' = Resolve1qBasis(qc_temp, basis_1q)
    /\ rpc' = "copy"
    /\ UNCHANGED <<gates, basis, basis_1q, basis_2q, ridx, rerr, mat, midx>>
    /\ ResFrame

\* qc_temp.gates = deepcopy(qc_temp.gates); return qc_temp
ResReturn ==
    /\ rpc = "copy"
    /\ qc_temp' = Deepcopy(qc_temp)
    /\ rpc' = "done"
    /\ UNCHANGED <<gates, basis, basis_1q, basis_2q, temp_resolved, ridx, rerr,
                   mat, midx>>
    /\ ResFrame

ResNext ==
    \/ ResRaiseMeasurement
    \/ ResRaiseBasis
    \/ ResBasis
    \/ ResGate
    \/ ResRaiseGate
    \/ Res2q
    \/ Res1q
    \/ ResReturn

SpecRes == ResInit /\ [][ResNext]_vars

(***************************************************************************)
(* The two decomposition passes, resolve_gates and adjacent_gates, each    *)
(* called on a circuit of its own                                          *)
(***************************************************************************)
DecompInit == AdjInit \/ ResInit

DecompNext == AdjNext \/ ResNext

SpecDecomp == DecompInit /\ [][DecompNext]_vars

(***************************************************************************)
(* Claims about resolve_gates and adjacent_gates                           *)
(***************************************************************************)
\* C11: resolve_gates and adjacent_gates raise an error and return no
\* program whenever the program contains a Measurement at any position,
\* whatever its gates and whatever basis argument is given: the call is
\* either about to raise or has raised, and nothing has been built.
C11_MeasurementRejected ==
    (\E k \in 1 .. Len(gates) : gates[k].cls = "Measurement") =>
        /\ apc \in {"off", "call", "raised"}
        /\ rpc \in {"off", "call", "raised"}
        /\ apc = "call" => ENABLED AdjRaiseMeasurement
        /\ rpc = "call" => ENABLED ResRaiseMeasurement
        /\ rpc = "raised" => rerr.type = "NotImplementedError"
        /\ temp = <<>> /\ qc_temp = <<>> /\ temp_resolved = <<>>

\* resolve_gates has raised on a circuit whose second operation is a
\* measurement that follows a gate, with a basis that is not valid.
C11_Witness ==
    /\ rpc = "raised"
    /\ Len(gates) = 2 /\ gates[1].cls = "Gate" /\ gates[2].cls = "Measurement"
    /\ BasisError(basis) # <<>>

\* The one-qubit generators a basis argument requests (RX, RY, RZ when it
\* requests none) and the two-qubit generators it requests (CNOT when it
\* requests none).
Requested1q(b) ==
    LET ones == {b.tokens[k] : k \in 1 .. Len(b.tokens)}
                    \cap {"RX", "RY", "RZ", "IDLE"}
    IN  IF ones = {} THEN {"RX", "RY", "RZ"} ELSE ones
Requested2q(b) ==
    LET twos == {b.tokens[k] : k \in 1 .. Len(b.tokens)}
                    \cap {"CNOT", "CSIGN", "ISWAP", "SQRTSWAP", "SQRTISWAP"}
    IN  IF twos = {} THEN {"CNOT"} ELSE twos

\* C12: for every measurement-free program and every basis resolve_gates
\* accepts, every gate of the returned program is named after a requested
\* one-qubit generator (RX, RY, RZ when none is requested), the requested
\* two-qubit generator (CNOT when none is requested) or GLOBALPHASE.
C12_OnlyRequestedGenerators ==
    rpc = "done" =>
        \A k \in 1 .. Len(qc_temp) :
            qc_temp[k].name \in Requested1q(basis) \cup Requested2q(basis)
                                    \cup {"GLOBALPHASE"}

\* The tokens of a basis argument.
TokensOf(b) == {b.tokens[k] : k \in 1 .. Len(b.tokens)}

\* The number of one-qubit generators in a basis list.
Count1q(b) ==
    Cardinality({k \in 1 .. Len(b.tokens) :
                    b.tokens[k] \in {"RX", "RY", "RZ", "IDLE"}})

\* A basis list the claim says is rejected.
RejectedBasis(b) ==
    \/ ~(TokensOf(b) \subseteq {"RX", "RY", "RZ", "IDLE", "CNOT", "CSIGN",
                                "ISWAP", "SQRTSWAP", "SQRTISWAP"})
    \/ Count1q(b) = 1

\* Every gate of the program has a rewrite rule.
AllHaveRules(gs) ==
    \A k \in 1 .. Len(gs) :
        /\ gs[k].cls = "Gate"
        /\ gs[k].name \in {"X", "Y", "Z", "RX", "RY", "RZ", "IDLE", "CNOT",
                           "SQRTNOT", "SNOT", "PHASEGATE", "CSIGN", "SWAP",
                           "ISWAP", "FREDKIN", "TOFFOLI", "GLOBALPHASE"}

Unresolvable(g, b) ==
    /\ g.cls = "Gate"
    /\ \/ g.name \notin {"X", "Y", "Z", "RX", "RY", "RZ", "IDLE", "CNOT",
                         "SQRTNOT", "SNOT", "PHASEGATE", "CSIGN", "SWAP",
                         "ISWAP", "FREDKIN", "TOFFOLI", "GLOBALPHASE",
                         "BERKELEY", "SWAPalpha", "SQRTSWAP", "SQRTISWAP"}
       \/ /\ g.name \in {"BERKELEY", "SWAPalpha", "SQRTSWAP", "SQRTISWAP"}
          /\ g.name \notin TokensOf(b)

\* The first gate of the program that cannot be rewritten.
FirstUnresolvable(gs, b) ==
    gs[CHOOSE k \in 1 .. Len(gs) :
          /\ Unresolvable(gs[k], b)
          /\ \A j \in 1 .. (k - 1) : ~Unresolvable(gs[j], b)]

\* C15: resolve_gates on a measurement-free program with a gate that cannot
\* be rewritten in the requested basis fails with an unsupported-gate error
\* whose message names that gate, and returns no partially resolved program.
C15_UnsupportedGateNamed ==
    (/\ rpc # "off"
     /\ \A k \in 1 .. Len(gates) : gates[k].cls = "Gate"
     /\ ~RejectedBasis(basis) /\ (basis.is_list \/ basis.tokens[1] # "U3")
     /\ \E k \in 1 .. Len(gates) : Unresolvable(gates[k], basis)) =>
        /\ rpc \in {"call", "gates", "raised"}
        /\ rpc = "raised" =>
              /\ rerr.type = "NotImplementedError"
              /\ \E k \in 1 .. Len(rerr.message) :
                    rerr.message[k] = FirstUnresolvable(gates, basis).name

\* A gate adjacent_gates has no branch for.
AdjUnsupported(g) ==
    /\ g.cls = "Gate"
    /\ g.name \notin {"CNOT", "CSIGN", "SWAP", "ISWAP", "SQRTISWAP", "SQRTSWAP",
                      "BERKELEY", "SWAPalpha"}

\* C16: adjacent_gates raises an unsupported-gate error and returns no
\* program whenever the program contains a gate that is not one of CNOT,
\* CSIGN, SWAP, ISWAP, SQRTISWAP, SQRTSWAP, BERKELEY, SWAPalpha, at any
\* position: the call never returns, and the loop raises at that gate.
C16_AdjacentUnsupported ==
    (apc # "off" /\ \E k \in 1 .. Len(gates) : AdjUnsupported(gates[k])) =>
        /\ apc \in {"call", "loop", "raised"}
        /\ apc = "loop" =>
              /\ gidx <= Len(gates)
              /\ \A j \in 1 .. (gidx - 1) : ~AdjUnsupported(gates[j])
              /\ AdjUnsupported(gates[gidx]) =>
                    /\ ENABLED AdjRaiseUnsupported
                    /\ ~ENABLED AdjGateControlled
                    /\ ~ENABLED AdjGateSwapLike
                    /\ ~ENABLED AdjReturn

\* adjacent_gates has raised at a GLOBALPHASE gate in second position, after
\* the gates for a CNOT on qubits that are not adjacent were emitted.
C16_Witness ==
    /\ apc = "raised"
    /\ Len(gates) = 2
    /\ gates[1].name = "CNOT" /\ gates[2].name = "GLOBALPHASE"
    /\ gidx = 2 /\ Len(temp) > 1

\* The gate object existed before the call.
IsInputObject(g) == "obj" \in DOMAIN g

\* C17: resolve_gates and adjacent_gates never modify the input program,
\* whether they return or raise, and the returned program shares no gate
\* object with the input.
C17_InputUntouched ==
    /\ [][gates' = gates]_vars
    /\ [](/\ rpc = "done" => \A k \in 1 .. Len(qc_temp) : ~IsInputObject(qc_temp[k])
          /\ apc = "done" => \A k \in 1 .. Len(temp) : ~IsInputObject(temp[k]))

\* resolve_gates has returned a program for a circuit whose gate was put
\* into temp_resolved as the input object itself.
C17_Witness ==
    /\ rpc = "done" /\ qc_temp # <<>>
    /\ \E k \in 1 .. Len(temp_resolved) : IsInputObject(temp_resolved[k])

(***************************************************************************)
(* Further claims about CircuitSimulator.run                               *)
(***************************************************************************)
\* C18: CircuitSimulator.run executes every compiled operation exactly once
\* and in order, no step makes it stop early, and it returns a Result with
\* exactly one branch: when the loop is left the step cursor equals the
\* number of compiled operations.
C18_RunExecutesEveryOperation ==
    /\ (pc = "ret" /\ entry = "CircuitSimulator.run") => op_index = Len(ops)
    /\ (pc = "idle" /\ entry = "CircuitSimulator.run") =>
          /\ op_index = Len(ops)
          /\ Len(result.final_states) = 1
          /\ Len(result.probabilities) = 1

(***************************************************************************)
(* The rewrite of X, Y and Z                                               *)
(***************************************************************************)
RotationName(name) ==
    CASE name = "X" -> "RX" [] name = "Y" -> "RY" [] name = "Z" -> "RZ"

\* C20: when resolve_gates returns, for every X, Y or Z gate of the input
\* the output contains the rotation by pi about the same axis on the same
\* target and a GLOBALPHASE gate with argument pi/2, in every accepted
\* basis, the default one included.
C20_PauliRotationAndPhase ==
    rpc = "done" =>
        \A k \in 1 .. Len(gates) :
            (gates[k].cls = "Gate" /\ gates[k].name \in {"X", "Y", "Z"}) =>
                /\ \E j \in 1 .. Len(qc_temp) :
                      /\ qc_temp[j].name = RotationName(gates[k].name)
                      /\ qc_temp[j].targets = gates[k].targets
                      /\ qc_temp[j].arg_value = Pi
                /\ \E j \in 1 .. Len(qc_temp) :
                      /\ qc_temp[j].name = "GLOBALPHASE"
                      /\ qc_temp[j].arg_value = half_pi

\* The same statement for the calls whose basis names one of CSIGN, ISWAP,
\* SQRTSWAP, SQRTISWAP and does not name exactly two one-qubit generators.
C20_WithMatchingBasisUnit ==
    (rpc = "done" /\ BasisUnit(basis_2q) # "" /\ Len(basis_1q) # 2) =>
        \A k \in 1 .. Len(gates) :
            (gates[k].cls = "Gate" /\ gates[k].name \in {"X", "Y", "Z"}) =>
                /\ \E j \in 1 .. Len(qc_temp) :
                      /\ qc_temp[j].name = RotationName(gates[k].name)
                      /\ qc_temp[j].targets = gates[k].targets
                      /\ qc_temp[j].arg_value = Pi
                /\ \E j \in 1 .. Len(qc_temp) :
                      /\ qc_temp[j].name = "GLOBALPHASE"
                      /\ qc_temp[j].arg_value = half_pi

(***************************************************************************)
(* CircuitSimulator with an arbitrary mode string                          *)
(***************************************************************************)
\* The mode strings _evolve_state and _apply_measurement have a branch for.
ValidModes == {"state_vector_simulator", "density_matrix_simulator"}

\* The mode strings the simulators of this specification are built with: the
\* default and one that no branch of the code knows.
SimModes == {"state_vector_simulator", "qasm_simulator"}

\* CircuitSimulator(qc, mode=m, precompute_unitary=p): __init__ stores the
\* mode, compiles the operations and calls initialize(None, None, None).
ModeInit ==
    /\ qc \in SeqsUpTo(RunInputOps, MaxRunOps)
    /\ precompute_unitary \in BOOLEAN
    /\ ops = Compile(qc, precompute_unitary)
    /\ prev_index = 0 /\ U_list_index = 0 /\ cpos = 1 /\ cpc = "off"
    /\ mode \in SimModes
    /\ state = None
    /\ cbits = 2
    /\ heap = <<<<>>, Zeros>>
    /\ probability = <<1, 1>>
    /\ op_index = 0
    /\ measure_results = <<>>
    /\ measure_ind = 0
    /\ pc = "idle"
    /\ entry = "CircuitSimulator"
    /\ args = MakeArgs(None, <<"none", <<>>>>, <<>>)
    /\ prev = NoPrev
    /\ outcomes = <<>>
    /\ result = <<>>
    /\ AdjOff
    /\ StatOff

\* Whether step() on op reaches _evolve_state or the mode test of
\* _apply_measurement: a tuple does only when its classical test passes.
ReachesModeTest(op, cb) ==
    \/ op.kind \in {"M", "U"}
    \/ op.kind = "T" /\ ApplyGateTest(op.operation, cb)

ModeStepMeasurement == mode = "state_vector_simulator" /\ StepMeasurement
ModeStepControlled == mode = "state_vector_simulator" /\ StepControlled
ModeStepUnitary == mode = "state_vector_simulator" /\ StepUnitary

\* step() under a mode without a branch: _evolve_state and
\* _apply_measurement end in `raise NotImplementedError("mode {} is not
\* available.")`; the exception leaves run in place of a result.
ModeStepRaise ==
    /\ pc = "run"
    /\ mode \notin ValidModes
    /\ ReachesModeTest(ops[op_index + 1], heap[cbits])
    /\ result' = Raised("NotImplementedError", <<"mode ", mode, " is not available.">>)
    /\ pc' = "raised"
    /\ UNCHANGED <<mode, state, cbits, heap, probability, op_index, measure_results,
                   measure_ind, entry, args, prev, outcomes>>
    /\ UNCHANGED aggVars
    /\ UNCHANGED adjVars
    /\ UNCHANGED resVars
    /\ UNCHANGED statVars

\* step() under a mode without a branch on a tuple whose classical test
\* fails: nothing looks at the mode, the cursor advances.
ModeStepSkipped ==
    /\ pc = "run"
    /\ mode \notin ValidModes
    /\ ~ReachesModeTest(ops[op_index + 1], heap[cbits])
    /\ StepControlled

ModeNext ==
    \/ SimRunCall
    \/ ModeStepMeasurement
    \/ ModeStepControlled
    \/ ModeStepUnitary
    \/ ModeStepRaise
    \/ ModeStepSkipped
    \/ RunReturn

SpecMode == ModeInit /\ [][ModeNext]_vars

\* C19: a CircuitSimulator whose mode is neither state_vector_simulator nor
\* density_matrix_simulator fails when it is constructed or run, for every
\* program and initial state: no run of such a simulator reaches its return
\* statement, and a run that has ended has ended in the error.
C19_UnknownModeFails ==
    (mode \notin ValidModes /\ entry = "CircuitSimulator.run") =>
        /\ pc \in {"run", "raised"}
        /\ pc = "raised" => result.type = "NotImplementedError"

\* The same statement for the runs whose program has an operation and whose
\* first operation is not a tuple the classical test skips.
C19_WhenAStepTestsTheMode ==
    (/\ mode \notin ValidModes /\ entry = "CircuitSimulator.run"
     /\ Len(ops) > 0 /\ ops[1].kind \in {"M", "U"}) =>
        /\ pc \in {"run", "raised"}
        /\ pc = "raised" => result.type = "NotImplementedError"

(***************************************************************************)
(* Gate matrices.  Every angle of the rewrite rules is a multiple of one   *)
(* angle unit, pi/Pi, so every matrix entry is a polynomial with integer   *)
(* coefficients in z = exp(i * unit) over a power of two, and z^Pi = -1.   *)
(* An entry of a gate's matrix is written as the sequence of the exponents *)
(* of the powers of z it is the sum of (-z^k is z^(k + Pi)); a matrix on n *)
(* qubits is kept as the flat tuple of the Pi coefficients of each of its  *)
(* entries, row by row, and the exponent den of its denominator 2^den.     *)
(* Qubit 0 is the most significant bit of a row index.                     *)
(***************************************************************************)
NoTerm == <<>>
One == <<0>>

\* cos(h), -i sin(h), sin(h) and -sin(h), each times two, h in angle units.
TwoCos(h) == <<h, -h>>
TwoMinusISin(h) == <<h + Pi, -h>>
TwoSin(h) == <<h + Pi + Pi \div 2, Pi \div 2 - h>>
TwoMinusSin(h) == <<h + Pi \div 2, Pi + Pi \div 2 - h>>

\* 1 and 1/sqrt(2), 1 + i, 1 - i, i/sqrt(2), each times two.
Two == <<0, 0>>
TwoInvSqrt2 == <<Pi \div 4, 2 * Pi - Pi \div 4>>
OnePlusI == <<0, Pi \div 2>>
OneMinusI == <<0, Pi + Pi \div 2>>
TwoIInvSqrt2 == <<Pi \div 2 + Pi \div 4, Pi \div 4>>

\* The matrix that sends basis vector j to basis vector perm[j] (1-based).
PermMatrix(perm) ==
    [i \in 1 .. Len(perm) |->
        [j \in 1 .. Len(perm) |-> IF perm[j] = i THEN One ELSE NoTerm]]

\* The compact matrix of a gate on its operands, controls first
\* (gate.get_compact_qobj()).
GateMatrix(g) ==
    LET h == g.arg_value \div 2
    IN  CASE g.name = "GLOBALPHASE" ->
                [den |-> 0, at |-> << << <<g.arg_value>> >> >>]
          [] g.name = "IDLE" ->
                [den |-> 0, at |-> << <<One, NoTerm>>, <<NoTerm, One>> >>]
          [] g.name = "X" ->
                [den |-> 0, at |-> << <<NoTerm, One>>, <<One, NoTerm>> >>]
          [] g.name = "Y" ->
                [den |-> 0, at |-> << <<NoTerm, <<Pi + Pi \div 2>> >>,
                                      << <<Pi \div 2>>, NoTerm>> >>]
          [] g.name = "Z" ->
                [den |-> 0, at |-> << <<One, NoTerm>>, <<NoTerm, <<Pi>> >> >>]
          [] g.name = "SNOT" ->
                [den |-> 1, at |-> << <<TwoInvSqrt2, TwoInvSqrt2>>,
                                      <<TwoInvSqrt2,
                                        <<Pi + Pi \div 4, Pi - Pi \div 4>> >> >>]
          [] g.name = "SQRTNOT" ->
                [den |-> 1, at |-> << <<OnePlusI, OneMinusI>>,
                                      <<OneMinusI, OnePlusI>> >>]
          [] g.name = "PHASEGATE" ->
                [den |-> 0, at |-> << <<One, NoTerm>>,
                                      <<NoTerm, <<g.arg_value>> >> >>]
          [] g.name = "RX" ->
                [den |-> 1, at |-> << <<TwoCos(h), TwoMinusISin(h)>>,
                                      <<TwoMinusISin(h), TwoCos(h)>> >>]
          [] g.name = "RY" ->
                [den |-> 1, at |-> << <<TwoCos(h), TwoMinusSin(h)>>,
                                      <<TwoSin(h), TwoCos(h)>> >>]
          [] g.name = "RZ" ->
                [den |-> 0, at |-> << << <<-h>>, NoTerm>>, <<NoTerm, <<h>> >> >>]
          [] g.name = "CNOT" ->
                [den |-> 0, at |-> PermMatrix(<<1, 2, 4, 3>>)]
          [] g.name = "CSIGN" ->
                [den |-> 0, at |-> << <<One, NoTerm, NoTerm, NoTerm>>,
                                      <<NoTerm, One, NoTerm, NoTerm>>,
                                      <<NoTerm, NoTerm, One, NoTerm>>,
                                      <<NoTerm, NoTerm, NoTerm, <<Pi>> >> >>]
          [] g.name = "SWAP" ->
                [den |-> 0, at |-> PermMatrix(<<1, 3, 2, 4>>)]
          [] g.name = "ISWAP" ->
                [den |-> 0, at |-> << <<One, NoTerm, NoTerm, NoTerm>>,
                                      <<NoTerm, NoTerm, <<Pi \div 2>>, NoTerm>>,
                                      <<NoTerm, <<Pi \div 2>>, NoTerm, NoTerm>>,
                                      <<NoTerm, NoTerm, NoTerm, One>> >>]
          [] g.name = "SQRTSWAP" ->
                [den |-> 1, at |-> << <<Two, NoTerm, NoTerm, NoTerm>>,
                                      <<NoTerm, OnePlusI, OneMinusI, NoTerm>>,
                                      <<NoTerm, OneMinusI, OnePlusI, NoTerm>>,
                                      <<NoTerm, NoTerm, NoTerm, Two>> >>]
          [] g.name = "SQRTISWAP" ->
                [den |-> 1, at |-> << <<Two, NoTerm, NoTerm, NoTerm>>,
                                      <<NoTerm, TwoInvSqrt2, TwoIInvSqrt2, NoTerm>>,
                                      <<NoTerm, TwoIInvSqrt2, TwoInvSqrt2, NoTerm>>,
                                      <<NoTerm, NoTerm, NoTerm, Two>> >>]
          [] g.name = "TOFFOLI" ->
                [den |-> 0, at |-> PermMatrix(<<1, 2, 3, 4, 5, 6, 8, 7>>)]
          [] g.name = "FREDKIN" ->
                [den |-> 0, at |-> PermMatrix(<<1, 2, 3, 4, 5, 7, 6, 8>>)]

\* gate.get_all_qubits()
Operands(g) == g.controls \o g.targets

\* Bit of qubit q in row index r of a register of n qubits.
MatBit(r, q, n) == (r \div Pow2(n - 1 - q)) % 2

\* The index the bits of r at the operands qs form, and r with those bits
\* replaced by the bits of j.
RECURSIVE LocalIndex(_, _, _)
LocalIndex(r, qs, n) ==
    IF qs = <<>> THEN 0
    ELSE 2 * LocalIndex(r, SubSeq(qs, 1, Len(qs) - 1), n) + MatBit(r, qs[Len(qs)], n)

RECURSIVE PutIndex(_, _, _, _)
PutIndex(r, qs, j, n) ==
    IF qs = <<>> THEN r
    ELSE LET q == qs[Len(qs)]
         IN  PutIndex(r + ((j % 2) - MatBit(r, q, n)) * Pow2(n - 1 - q),
                      SubSeq(qs, 1, Len(qs) - 1), j \div 2, n)

\* Row r of (gate expanded to n qubits) as a combination of powers of z
\* times rows of the matrix it is multiplied with: pairs <<row, exponent>>.
RECURSIVE RowTermsFrom(_, _, _, _, _)
RowTermsFrom(U, qs, r, n, j) ==
    IF j = Len(U.at) THEN <<>>
    ELSE LET ks == U.at[LocalIndex(r, qs, n) + 1][j + 1]
         IN  [t \in 1 .. Len(ks) |-> <<PutIndex(r, qs, j, n), ks[t]>>]
                 \o RowTermsFrom(U, qs, r, n, j + 1)

\* Coefficient x of z^k times the entry whose coefficients start after base.
ShiftAt(m, base, k, x) ==
    LET j == (x - k) % (2 * Pi)
    IN  IF j < Pi THEN m[base + j + 1] ELSE -m[base + j - Pi + 1]

RECURSIVE SumTerms(_, _, _, _, _, _)
SumTerms(m, terms, t, c, x, n) ==
    IF t > Len(terms) THEN 0
    ELSE ShiftAt(m, (terms[t][1] * Pow2(n) + c) * Pi, terms[t][2], x)
            + SumTerms(m, terms, t + 1, c, x, n)

RECURSIVE MulRowsFrom(_, _, _, _, _)
MulRowsFrom(U, qs, m, n, r) ==
    IF r = Pow2(n) THEN <<>>
    ELSE LET terms == RowTermsFrom(U, qs, r, n, 0)
             width == Pow2(n) * Pi
             row == [p \in 1 .. width |->
                        SumTerms(m, terms, 1, (p - 1) \div Pi, (p - 1) % Pi, n)]
         IN  SubSeq(row, 1, width) \o MulRowsFrom(U, qs, m, n, r + 1)

\* A matrix with its denominator made as small as it can be.
RECURSIVE Reduced(_)
Reduced(M) ==
    IF M.den > 0 /\ \A p \in 1 .. Len(M.m) : M.m[p] % 2 = 0
    THEN Reduced([den |-> M.den - 1, m |-> [p \in 1 .. Len(M.m) |-> M.m[p] \div 2]])
    ELSE M

\* qeye on n qubits
IdentityMatrix(n) ==
    [den |-> 0,
     m |-> [p \in 1 .. Pow2(n) * Pow2(n) * Pi |->
              IF (p - 1) % Pi = 0
                 /\ ((p - 1) \div Pi) \div Pow2(n) = ((p - 1) \div Pi) % Pow2(n)
              THEN 1 ELSE 0]]

\* gate.get_qobj(n) * M
MulGate(g, M, n) ==
    LET U == GateMatrix(g)
    IN  Reduced([den |-> M.den + U.den,
                 m |-> MulRowsFrom(U, Operands(g), M.m, n, 0)])

\* gate.get_qobj(n)
ExpandedMatrix(g, n) == MulGate(g, IdentityMatrix(n), n)

(***************************************************************************)
(* resolve_gates on a circuit of one gate, followed by the ordered product *)
(* of the matrices of the gates it returns (gate_sequence_product)         *)
(***************************************************************************)
\* The gates with a rewrite rule, and the gates that are kept or transformed
\* by the two-qubit and one-qubit passes.
MatInputGates ==
    { Gate("X", <<0>>, <<>>, NoneInt),
      Gate("Y", <<0>>, <<>>, NoneInt),
      Gate("Z", <<0>>, <<>>, NoneInt),
      Gate("SQRTNOT", <<0>>, <<>>, NoneInt),
      Gate("SNOT", <<0>>, <<>>, NoneInt),
      Gate("PHASEGATE", <<0>>, <<>>, quarter_pi),
      Gate("PHASEGATE", <<0>>, <<>>, half_pi),
      Gate("GLOBALPHASE", <<>>, <<>>, quarter_pi),
      Gate("RX", <<0>>, <<>>, quarter_pi),
      Gate("RY", <<0>>, <<>>, half_pi),
      Gate("RZ", <<0>>, <<>>, quarter_pi),
      Gate("CNOT", <<1>>, <<0>>, NoneInt),
      Gate("CNOT", <<0>>, <<1>>, NoneInt),
      Gate("CSIGN", <<1>>, <<0>>, NoneInt),
      Gate("CSIGN", <<0>>, <<1>>, NoneInt),
      Gate("SWAP", <<0, 1>>, <<>>, NoneInt),
      Gate("ISWAP", <<0, 1>>, <<>>, NoneInt),
      Gate("ISWAP", <<1, 0>>, <<>>, NoneInt),
      Gate("TOFFOLI", <<2>>, <<0, 1>>, NoneInt),
      Gate("TOFFOLI", <<0>>, <<2, 1>>, NoneInt),
      Gate("FREDKIN", <<1, 2>>, <<0>>, NoneInt),
      Gate("FREDKIN", <<0, 2>>, <<1>>, NoneInt) }

\* The accepted bases: no two-qubit generator (CNOT is used) or one of the
\* five, with no one-qubit generator (RX, RY, RZ are used), two or three.
MatBases ==
    {ListBasis(b2 \o b1) :
        b2 \in {<<>>, <<"CNOT">>, <<"CSIGN">>, <<"ISWAP">>, <<"SQRTSWAP">>,
                <<"SQRTISWAP">>},
        b1 \in {<<>>, <<"RX", "RY">>, <<"RX", "RZ">>, <<"RY", "RZ">>,
                <<"RX", "RY", "RZ">>}}

\* The number of qubits of the smallest register that holds the gates.
RECURSIVE MaxOperand(_)
MaxOperand(qs) == IF qs = <<>> THEN 0 ELSE Max2(Head(qs), MaxOperand(Tail(qs)))

RECURSIVE MatN(_)
MatN(gs) ==
    IF gs = <<>> THEN 1
    ELSE Max2(MaxOperand(Operands(Head(gs))) + 1, MatN(Tail(gs)))

MatInit ==
    /\ gates \in {Objects(<<g>>) : g \in MatInputGates}
    /\ basis \in MatBases
    /\ basis_1q = <<>>
    /\ basis_2q = <<>>
    /\ temp_resolved = <<>>
    /\ qc_temp = <<>>
    /\ ridx = 1
    /\ rpc = "call"
    /\ rerr = <<>>
    /\ mat = IdentityMatrix(MatN(gates))
    /\ midx = 0
    /\ temp = <<>> /\ gidx = 1 /\ ends = <<>> /\ apc = "off"
    /\ AggOff
    /\ mode = "" /\ state = <<>> /\ cbits = NoneInt /\ heap = <<>>
    /\ probability = <<1, 1>> /\ op_index = 0 /\ measure_results = <<>>
    /\ measure_ind = 0 /\ pc = "off" /\ entry = "" /\ args = <<>>
    /\ prev = <<>> /\ outcomes = <<>> /\ result = <<>>
    /\ combo = 0 /\ states = <<>> /\ probabilities = <<>>
    /\ cbits_results = <<>> /\ starts = <<>> /\ finals = <<>>

\* The next gate of the returned circuit is multiplied onto the product of
\* the gates before it.
MatMul ==
    /\ rpc = "done" /\ midx < Len(qc_temp)
    /\ mat' = MulGate(qc_temp[midx + 1], mat, MatN(gates))
    /\ midx' = midx + 1
    /\ UNCHANGED <<gates, basis, basis_1q, basis_2q, temp_resolved, qc_temp, ridx,
                   rpc, rerr>>
    /\ ResFrame

MatNext ==
    \/ ResBasis
    \/ ResGate
    \/ Res2q
    \/ Res1q
    \/ ResReturn
    \/ MatMul

SpecResMat == MatInit /\ [][MatNext]_vars

\* C13: for every gate that has a rewrite rule and every accepted basis, the
\* ordered product of the matrices of the gates resolve_gates returns for
\* it, the GLOBALPHASE gates included, equals the matrix of the gate.
C13_ProductEqualsGate ==
    (rpc = "done" /\ midx = Len(qc_temp)) =>
        mat = ExpandedMatrix(gates[1], MatN(gates))

\* The same statement without the calls that resolve an X, Y or Z gate in a
\* basis none of whose tokens is CSIGN, ISWAP, SQRTSWAP or SQRTISWAP.
C13_ExceptPauliWithoutBasisUnit ==
    (/\ rpc = "done" /\ midx = Len(qc_temp)
     /\ ~(gates[1].name \in {"X", "Y", "Z"} /\ BasisUnit(basis_2q) = "")) =>
        mat = ExpandedMatrix(gates[1], MatN(gates))

(***************************************************************************)
(* The two-qubit basis transformers in the returned program                *)
(***************************************************************************)
TransformerUnits == {"CSIGN", "ISWAP", "SQRTSWAP", "SQRTISWAP"}

\* The generators of TransformerUnits a basis names.
NamedUnits(b2q) == {G \in TransformerUnits : InSeq(G, b2q)}

\* The qubits a gate acts on.
QubitsOf(g) ==
    {g.targets[k] : k \in 1 .. Len(g.targets)}
        \cup {g.controls[k] : k \in 1 .. Len(g.controls)}

\* The sets of qubits of the gates on two qubits, in program order.
RECURSIVE PairsOf(_)
PairsOf(gs) ==
    IF gs = <<>> THEN <<>>
    ELSE IF Cardinality(QubitsOf(Head(gs))) = 2
         THEN <<QubitsOf(Head(gs))>> \o PairsOf(Tail(gs))
         ELSE PairsOf(Tail(gs))

\* The number of two-qubit gates the replacement sequence for G has for a
\* gate of the given name (a gate that is not replaced counts as itself).
ReplacementCount(G, name) ==
    IF name = "CNOT" THEN (IF G = "CSIGN" THEN 1 ELSE 2)
    ELSE IF name = "SWAP" /\ G = "ISWAP" THEN 3
    ELSE 1

RECURSIVE Repeat(_, _)
Repeat(x, n) == IF n = 0 THEN <<>> ELSE <<x>> \o Repeat(x, n - 1)

\* The pairs of the gates of gs with every CNOT (for ISWAP, every SWAP too)
\* replaced, at its position, by the two-qubit gates of its replacement.
RECURSIVE ReplacedPairs(_, _)
ReplacedPairs(gs, G) ==
    IF gs = <<>> THEN <<>>
    ELSE IF Cardinality(QubitsOf(Head(gs))) = 2
         THEN Repeat(QubitsOf(Head(gs)), ReplacementCount(G, Head(gs).name))
                  \o ReplacedPairs(Tail(gs), G)
         ELSE ReplacedPairs(Tail(gs), G)

TransformedFor(G, gs, resolved) ==
    /\ \A k \in 1 .. Len(gs) : gs[k].name # "CNOT"
    /\ G = "ISWAP" => \A k \in 1 .. Len(gs) : gs[k].name # "SWAP"
    /\ \A k \in 1 .. Len(gs) : Cardinality(QubitsOf(gs[k])) = 2 => gs[k].name = G
    /\ PairsOf(gs) = ReplacedPairs(resolved, G)

\* C21: when the basis names a generator G of CSIGN, ISWAP, SQRTSWAP,
\* SQRTISWAP, the program resolve_gates builds holds no CNOT (for ISWAP, no
\* SWAP): every CNOT of the per-gate pass is replaced at its position by
\* the replacement for G, whose two-qubit gates are all G and act on the
\* control and target of that CNOT.
C21_TwoQubitBasisReplacesCNOT ==
    /\ rpc = "1q" =>
          \A G \in NamedUnits(basis_2q) : TransformedFor(G, qc_temp, temp_resolved)
    /\ rpc = "done" =>
          \A G \in NamedUnits(basis_2q) :
              /\ \A k \in 1 .. Len(qc_temp) : qc_temp[k].name # "CNOT"
              /\ G = "ISWAP" => \A k \in 1 .. Len(qc_temp) : qc_temp[k].name # "SWAP"

\* The same statement for the bases that name one generator of
\* TransformerUnits.
C21_WithOneTransformerUnit ==
    Cardinality(NamedUnits(basis_2q)) = 1 =>
        /\ rpc = "1q" =>
              \A G \in NamedUnits(basis_2q) :
                  TransformedFor(G, qc_temp, temp_resolved)
        /\ rpc = "done" =>
              \A G \in NamedUnits(basis_2q) :
                  /\ \A k \in 1 .. Len(qc_temp) : qc_temp[k].name # "CNOT"
                  /\ G = "ISWAP" =>
                        \A k \in 1 .. Len(qc_temp) : qc_temp[k].name # "SWAP"

(***************************************************************************)
(* The one-qubit pass in the returned program                              *)
(***************************************************************************)
RotationAxes == {"RX", "RY", "RZ"}

\* The rotation axes a basis names.
RequestedAxes(b) == {a \in RotationAxes : InSeq(a, b.tokens)}

\* post is pre with every rotation about an axis of `missing` replaced, in
\* place, by three rotations on the same target about the other axes with
\* angles -pi/2, the angle of the rotation, +pi/2, and nothing else changed.
RECURSIVE RewrittenFrom(_, _, _)
RewrittenFrom(pre, post, missing) ==
    IF pre = <<>> THEN post = <<>>
    ELSE IF Head(pre).name \in missing
    THEN /\ Len(post) >= 3
         /\ \A j \in 1 .. 3 :
               /\ post[j].name \in RotationAxes \ missing
               /\ post[j].targets = Head(pre).targets
         /\ post[1].arg_value = -half_pi
         /\ post[2].arg_value = Head(pre).arg_value
         /\ post[3].arg_value = half_pi
         /\ RewrittenFrom(Tail(pre), SubSeq(post, 4, Len(post)), missing)
    ELSE /\ post # <<>>
         /\ post[1] = Head(pre)
         /\ RewrittenFrom(Tail(pre), Tail(post), missing)

\* C22: when the basis names exactly two of RX, RY, RZ, with or without
\* IDLE, the returned program holds no rotation about the third axis, each
\* such rotation being replaced in place by three rotations on its target
\* about the two named axes with angles -pi/2, its angle, +pi/2; when all
\* three are named no rotation is rewritten.
C22_MissingAxisRewritten ==
    /\ [](rpc = "done" /\ Cardinality(RequestedAxes(basis)) = 2 =>
             \A k \in 1 .. Len(qc_temp) :
                 qc_temp[k].name \notin RotationAxes \ RequestedAxes(basis))
    /\ [][rpc = "1q" =>
             /\ Cardinality(RequestedAxes(basis)) = 2 =>
                   RewrittenFrom(qc_temp, qc_temp', RotationAxes \ RequestedAxes(basis))
             /\ Cardinality(RequestedAxes(basis)) = 3 => qc_temp' = qc_temp]_vars

\* The same statement for the bases that do not name IDLE.
C22_WithoutIDLE ==
    /\ [](rpc = "done" /\ Cardinality(RequestedAxes(basis)) = 2
             /\ ~InSeq("IDLE", basis.tokens) =>
             \A k \in 1 .. Len(qc_temp) :
                 qc_temp[k].name \notin RotationAxes \ RequestedAxes(basis))
    /\ [][rpc = "1q" /\ ~InSeq("IDLE", basis.tokens) =>
             /\ Cardinality(RequestedAxes(basis)) = 2 =>
                   RewrittenFrom(qc_temp, qc_temp', RotationAxes \ RequestedAxes(basis))
             /\ Cardinality(RequestedAxes(basis)) = 3 => qc_temp' = qc_temp]_vars

(***************************************************************************)
(* Further claims about adjacent_gates                                     *)
(***************************************************************************)
\* C23: for a CNOT or CSIGN spanning non-adjacent qubits, the one gate of
\* that name adjacent_gates emits has its control on the position that,
\* after the SWAPs emitted before it, holds the original control qubit and
\* its target on the position that holds the original target qubit.
C23_ControlTargetTracked ==
    \A k \in 1 .. Len(ends) :
        (/\ gates[k].name \in {"CNOT", "CSIGN"}
         /\ GateEnd(gates[k]) - GateStart(gates[k]) >= 2) =>
            LET blk == Block(k)
            IN  \A j \in 1 .. Len(blk) :
                    blk[j].name # "SWAP" =>
                        LET perm == PermAfter(SubSeq(blk, 1, j - 1), IdPerm)
                        IN  /\ Len(blk[j].controls) = 1 /\ Len(blk[j].targets) = 1
                            /\ perm[blk[j].controls[1] + 1] = gates[k].controls[1]
                            /\ perm[blk[j].targets[1] + 1] = gates[k].targets[1]

\* A returned program with a controlled gate of span 2 whose control is the
\* higher index and one of span 3 whose control is the lower index, each
\* rewritten with SWAPs around it.
C23_Witness ==
    /\ apc = "done"
    /\ \E k \in 1 .. Len(gates) :
          /\ gates[k].name \in {"CNOT", "CSIGN"}
          /\ gates[k].controls[1] - gates[k].targets[1] = 2
          /\ Len(Block(k)) = 3
    /\ \E k \in 1 .. Len(gates) :
          /\ gates[k].name \in {"CNOT", "CSIGN"}
          /\ gates[k].targets[1] - gates[k].controls[1] = 3
          /\ Len(Block(k)) = 5

(***************************************************************************)
(* Measurements of a run in state-vector mode                              *)
(***************************************************************************)
\* The number of Measurements among the first n compiled operations.
MeasurementsDone(os, n) == Cardinality({k \in 1 .. n : os[k].kind = "M"})

\* C24: in CircuitSimulator.run with a non-empty forced-outcome sequence the
\* k-th Measurement executed takes outcome measure_results[k]: the cursor
\* measure_ind is 0 when the run starts, equals the number of measurements
\* executed so far after every step, and is moved by no other step.
C24_ForcedOutcomesInOrder ==
    (/\ entry = "CircuitSimulator.run" /\ pc \in {"run", "ret", "idle"}
     /\ measure_results # <<>>) =>
        /\ measure_ind = MeasurementsDone(ops, op_index)
        /\ Len(outcomes) = measure_ind
        /\ \A k \in 1 .. Len(outcomes) : outcomes[k] = measure_results[k]

\* A run of two measurements forced to 1 and 0 that has executed both.
C24_Witness ==
    /\ entry = "CircuitSimulator.run" /\ pc = "ret"
    /\ measure_results = <<1, 0>> /\ outcomes = <<1, 0>> /\ measure_ind = 2
    /\ state # None

\* The classical bits a run starts from: the supplied list, else zeros.
InitialCbits == IF args.cbits = <<>> THEN Zeros ELSE args.cbits

\* The outcome taken at compiled operation n, a Measurement.
OutcomeAt(n) == outcomes[MeasurementsDone(ops, n)]

\* The simulator's fields after the first n compiled operations, the
\* measurements taking the recorded outcomes.
RECURSIVE SessionAfter(_)
SessionAfter(n) ==
    IF n = 0 THEN Session(args.state, InitialCbits, <<1, 1>>, 0, 0)
    ELSE StepOn(SessionAfter(n - 1), ops[n], measure_results, precompute_unitary,
                IF ops[n].kind = "M" THEN OutcomeAt(n) ELSE 0)

\* The probability of outcome i of a measurement of state v.
OutcomeProbability(operation, v, i) ==
    Frac(SumSq(Project(operation, v, i)), SumSq(v))

\* The product of the probabilities of the outcomes taken at the
\* measurements among the first n compiled operations.
RECURSIVE ProbabilityProduct(_)
ProbabilityProduct(n) ==
    IF n = 0 THEN <<1, 1>>
    ELSE IF ops[n].kind = "M"
         THEN FracMul(ProbabilityProduct(n - 1),
                      OutcomeProbability(ops[n].operation,
                                         SessionAfter(n - 1).state, OutcomeAt(n)))
         ELSE ProbabilityProduct(n - 1)

\* The executed measurements that store into classical bit b.
StoresInto(b) ==
    {k \in 1 .. op_index : ops[k].kind = "M" /\ ops[k].operation.classical_store = b}

\* C25: after a run in state-vector mode the accumulated probability is
\* the product of the probabilities of the outcomes taken at the executed
\* measurements (1 without any); a classical bit some executed measurement
\* stores into holds the outcome of the last such measurement, every other
\* classical bit its initial value.
C25_ProbabilityAndStores ==
    (/\ pc = "ret" /\ entry \in {"QubitCircuit.run", "CircuitSimulator.run"}
     /\ mode = "state_vector_simulator") =>
        /\ probability = ProbabilityProduct(op_index)
        /\ \A b \in 0 .. NumCbits - 1 :
              IF StoresInto(b) = {}
              THEN heap[cbits][b + 1] = InitialCbits[b + 1]
              ELSE \E k \in StoresInto(b) :
                      /\ \A j \in StoresInto(b) : j <= k
                      /\ heap[cbits][b + 1] = OutcomeAt(k)

\* A run that has taken an outcome of probability 1/2 and stored it, 0,
\* into a classical bit that was supplied as 1.
C25_Witness ==
    /\ pc = "ret" /\ entry = "CircuitSimulator.run"
    /\ args.cbits # <<>> /\ args.cbits[1] = 1
    /\ outcomes = <<0>> /\ probability = <<1, 2>>
    /\ heap[cbits][1] = 0

(***************************************************************************)
(* Density matrices.  A density matrix is kept as the tuple of its rows,   *)
(* integers up to a common positive factor (the state is the matrix        *)
(* divided by its trace); the gates of the simulated circuits are real.    *)
(***************************************************************************)
\* The rows of a matrix as tuples.
Rows(f) == SubSeq([r \in 1 .. Dim |-> SubSeq(f[r], 1, Dim)], 1, Dim)

RECURSIVE RowsGCD(_)
RowsGCD(rows) == IF rows = <<>> THEN 0 ELSE GCD(SeqGCD(Head(rows)), RowsGCD(Tail(rows)))

DmNormalise(rho) ==
    LET g == RowsGCD(rho)
    IN  IF g = 0 THEN rho
        ELSE Rows([r \in 1 .. Dim |-> [c \in 1 .. Dim |-> rho[r][c] \div g]])

\* The collapsed state of an outcome of probability 0 (None).
DmNone == Rows([r \in 1 .. Dim |-> [c \in 1 .. Dim |-> 0]])

RECURSIVE TraceFrom(_, _)
TraceFrom(rho, r) == IF r > Dim THEN 0 ELSE rho[r][r] + TraceFrom(rho, r + 1)
Trace(rho) == TraceFrom(rho, 1)

Transpose(rho) == Rows([r \in 1 .. Dim |-> [c \in 1 .. Dim |-> rho[c][r]]])

\* ket2dm(state)
Ket2dm(v) == DmNormalise(Rows([r \in 1 .. Dim |-> [c \in 1 .. Dim |-> v[r] * v[c]]]))

\* G * rho * G.dag() for one gate G (a real matrix).
GateOnDm(g, rho) ==
    LET right == Rows([r \in 1 .. Dim |-> GateTimes(g, rho[r])])
        cols == Transpose(right)
    IN  Transpose(Rows([c \in 1 .. Dim |-> GateTimes(g, cols[c])]))

\* _evolve_dm(U): self.state = U * self.state * U.dag(), U being the product
\* of the gates at positions fs of U_list.
RECURSIVE DmFactors(_, _, _)
DmFactors(fs, gs, rho) ==
    IF fs = <<>> THEN DmNormalise(rho)
    ELSE DmFactors(Tail(fs), gs, GateOnDm(gs[Head(fs) + 1], rho))

EvolveDm(U, rho) == DmFactors(U.factors, GatesOnly(qc), rho)

\* Measurement.measurement_comp_basis(state) for a density matrix: the
\* projected states P_i * rho * P_i, renormalised (None for an outcome of
\* probability 0), and the probabilities tr(P_i * rho).
DmProject(operation, rho, i) ==
    Rows([r \in 1 .. Dim |-> [c \in 1 .. Dim |->
            IF BitOf(r - 1, operation.targets[1]) = i
               /\ BitOf(c - 1, operation.targets[1]) = i
            THEN rho[r][c] ELSE 0]])

DmMeasurementCompBasis(operation, rho) ==
    LET p0 == DmProject(operation, rho, 0)
        p1 == DmProject(operation, rho, 1)
    IN  [states |-> <<DmNormalise(p0), DmNormalise(p1)>>,
         probabilities |-> <<Frac(Trace(p0), Trace(rho)), Frac(Trace(p1), Trace(rho))>>]

\* sum(p * s for s, p in zip(states, probabilities)), each s being the
\* matrix sts[k] divided by its trace.
WeightedSum(sts, ps) ==
    IF Len(sts) = 0 \/ Len(ps) = 0 THEN DmNone
    ELSE IF Len(sts) = 1 \/ Len(ps) = 1 THEN DmNormalise(sts[1])
    ELSE LET w1 == ps[1][1] * ps[2][2] * Trace(sts[2])
             w2 == ps[2][1] * ps[1][2] * Trace(sts[1])
         IN  DmNormalise(Rows([r \in 1 .. Dim |-> [c \in 1 .. Dim |->
                                  w1 * sts[1][r][c] + w2 * sts[2][r][c]]]))

\* _apply_measurement(operation) in density-matrix mode:
\*   states = list(filter(lambda x: x is not None, states))
\*   probabilities = list(filter(lambda x: x != 0, probabilities))
\*   self.state = sum(p * s for s, p in zip(states, probabilities))
\* and the same with the forced outcome stored as in state-vector mode.
ApplyMeasurementDmStoring(s, operation, mr, i) ==
    LET m == DmMeasurementCompBasis(operation, s.state)
    IN  [s EXCEPT
            !.state = WeightedSum(SelectSeq(m.states, LAMBDA x : x # DmNone),
                                  SelectSeq(m.probabilities, LAMBDA x : x[1] # 0)),
            !.cbits = IF operation.classical_store # NoneInt /\ mr # <<>>
                      THEN [@ EXCEPT ![operation.classical_store + 1] = mr[1]]
                      ELSE @]

\* ... and the same collapsing to the forced outcome as in state-vector mode.
ApplyMeasurementDmCollapsing(s, operation, mr, i) ==
    LET m == DmMeasurementCompBasis(operation, s.state)
        j == IF mr # <<>> THEN mr[s.measure_ind + 1] ELSE 0
    IN  [s EXCEPT
            !.measure_ind = IF mr # <<>> THEN @ + 1 ELSE @,
            !.state = m.states[j + 1],
            !.probability = FracMul(@, m.probabilities[j + 1])]

ApplyMeasurementDm(s, operation, mr, i) ==
    LET m == DmMeasurementCompBasis(operation, s.state)
    IN  [s EXCEPT
            !.state = WeightedSum(SelectSeq(m.states, LAMBDA x : x # DmNone),
                                  SelectSeq(m.probabilities, LAMBDA x : x[1] # 0))]

\* step() on a (gate, unitary) tuple in density-matrix mode.
ApplyControlledDm(s, operation, U, precompute) ==
    IF ApplyGateTest(operation, s.cbits)
    THEN [s EXCEPT !.state = EvolveDm(IF precompute THEN ExpandOperator(U) ELSE U, @)]
    ELSE s

\* step() in density-matrix mode.
StepOnDm(s, op, mr, precompute) ==
    LET t == CASE op.kind = "M" -> ApplyMeasurementDm(s, op.operation, mr, 0)
               [] op.kind = "T" -> ApplyControlledDm(s, op.operation, op.U, precompute)
               [] op.kind = "U" -> [s EXCEPT !.state = EvolveDm(op.U, @)]
    IN  [t EXCEPT !.op_index = @ + 1]

(***************************************************************************)
(* The simulator in density-matrix mode                                    *)
(***************************************************************************)
\* Largest number of operations in a circuit simulated in density-matrix mode.
MaxDmOps == 2

DensityMatrixMode == "density_matrix_simulator"

\* initialize in density-matrix mode: a ket is turned into ket2dm(state).
InitializeDm(st, cbref, mr, h, fresh) == Initialize(Ket2dm(st), cbref, mr, h, fresh)

\* The simulator as constructed by CircuitSimulator(qc, ...,
\* mode="density_matrix_simulator", precompute_unitary), with either run or
\* run_statistics(state, cbits) about to be called on it.
DmInit ==
    /\ qc \in SeqsUpTo(StatInputOps, MaxDmOps)
    /\ precompute_unitary \in BOOLEAN
    /\ ops = Compile(qc, precompute_unitary)
    /\ prev_index = 0 /\ U_list_index = 0 /\ cpos = 1 /\ cpc = "off"
    /\ mode = DensityMatrixMode
    /\ \/ /\ pc = "idle"
          /\ entry = "CircuitSimulator"
          /\ state = DmNone
          /\ cbits = 2
          /\ heap = <<<<>>, Zeros>>
          /\ args = MakeArgs(None, <<"none", <<>>>>, <<>>)
       \/ /\ pc = "stat"
          /\ entry = "run_statistics"
          /\ \E st \in InitialStates, c \in CallerChoices :
                /\ state = Ket2dm(st)
                /\ heap = IF c[1] = "none" THEN <<<<>>, Zeros>> ELSE <<c[2]>>
                /\ cbits = IF c[1] = "none" THEN 2 ELSE 1
                /\ args = [state |-> st, cbits |-> c[2], measure_results |-> <<>>]
    /\ probability = <<1, 1>>
    /\ op_index = 0
    /\ measure_results = <<>>
    /\ measure_ind = 0
    /\ prev = NoPrev
    /\ outcomes = <<>>
    /\ result = <<>>
    /\ combo = 0
    /\ states = <<>>
    /\ probabilities = <<>>
    /\ cbits_results = <<>>
    /\ starts = <<>>
    /\ finals = <<>>
    /\ AdjOff
    /\ ResOff

\* CircuitSimulator.run(state, cbits, measure_results), state a ket.
DmRunCall ==
    /\ pc = "idle"
    /\ \E st \in InitialStates, c \in CallerChoices,
          mr \in BitSeqs(NumMeasurements(qc)) \cup {<<>>} :
          /\ InitializeDm(st, CallerRef(c), mr, CallerHeap(c), 2)
          /\ args' = MakeArgs(st, c, mr)
    /\ entry' = "CircuitSimulator.run"
    /\ prev' = IF prev.valid /\ prev.args = args' THEN prev ELSE NoPrev
    /\ outcomes' = <<>>
    /\ pc' = AfterInitialize(ops)
    /\ UNCHANGED <<qc, precompute_unitary, ops, prev_index, U_list_index, cpos, cpc,
                   mode, result>>
    /\ UNCHANGED adjVars
    /\ UNCHANGED resVars
    /\ UNCHANGED statVars

\* for results in product("01", repeat=num_measurements):
\*     run_result = self.run(state, cbits=cbits, measure_results=results)
\* up to the end of run's initialize.
DmStatReplay ==
    /\ pc = "stat"
    /\ combo < Pow2(NumMeasurements(qc))
    /\ InitializeDm(args.state, IF args.cbits = <<>> THEN NoneInt ELSE 1,
                    Combination(combo, NumMeasurements(qc)), heap, Len(heap) + 1)
    /\ starts' = Append(starts, heap'[cbits'])
    /\ outcomes' = <<>>
    /\ combo' = combo + 1
    /\ pc' = AfterInitialize(ops)
    /\ UNCHANGED <<mode, entry, args, prev, result,
                   states, probabilities, cbits_results, finals>>
    /\ UNCHANGED aggVars
    /\ UNCHANGED adjVars
    /\ UNCHANGED resVars

\* for _ in range(len(self.ops)): if self.step() is None: break
\* (no step of density-matrix mode leaves the state None).
DmAfterStep == IF state' = DmNone \/ op_index' = Len(ops) THEN "ret" ELSE "run"

\* step() in density-matrix mode: a Measurement.
DmStepMeasurement ==
    /\ pc = "run"
    /\ mode = DensityMatrixMode
    /\ ops[op_index + 1].kind = "M"
    /\ SetSession(StepOnDm(CurSession, ops[op_index + 1], measure_results,
                           precompute_unitary))
    /\ pc' = DmAfterStep
    /\ UNCHANGED <<mode, cbits, measure_results, entry, args, prev, outcomes, result>>
    /\ UNCHANGED aggVars
    /\ UNCHANGED adjVars
    /\ UNCHANGED resVars
    /\ UNCHANGED statVars

\* step() in density-matrix mode: a (gate, unitary) tuple.
DmStepControlled ==
    /\ pc = "run"
    /\ mode = DensityMatrixMode
    /\ ops[op_index + 1].kind = "T"
    /\ SetSession(StepOnDm(CurSession, ops[op_index + 1], measure_results,
                           precompute_unitary))
    /\ pc' = DmAfterStep
    /\ UNCHANGED <<mode, cbits, measure_results, entry, args, prev, outcomes, result>>
    /\ UNCHANGED aggVars
    /\ UNCHANGED adjVars
    /\ UNCHANGED resVars
    /\ UNCHANGED statVars

\* step() in density-matrix mode: a bare unitary.
DmStepUnitary ==
    /\ pc = "run"
    /\ mode = DensityMatrixMode
    /\ ops[op_index + 1].kind = "U"
    /\ SetSession(StepOnDm(CurSession, ops[op_index + 1], measure_results,
                           precompute_unitary))
    /\ pc' = DmAfterStep
    /\ UNCHANGED <<mode, cbits, measure_results, entry, args, prev, outcomes, result>>
    /\ UNCHANGED aggVars
    /\ UNCHANGED adjVars
    /\ UNCHANGED resVars
    /\ UNCHANGED statVars

\* The positions of the list whose state is not None.
RECURSIVE DmRetained(_, _)
DmRetained(sts, k) ==
    IF k > Len(sts) THEN <<>>
    ELSE (IF sts[k] # DmNone THEN <<k>> ELSE <<>>) \o DmRetained(sts, k + 1)

\* CircuitResult(final_states, probabilities, cbits) for lists of density
\* matrices.
DmListResult(sts, ps, cbs) ==
    LET inds == DmRetained(sts, 1)
    IN  [final_states |-> [j \in 1 .. Len(inds) |-> sts[inds[j]]],
         probabilities |-> [j \in 1 .. Len(inds) |-> ps[inds[j]]],
         cbits |-> IF cbs # <<>> THEN [j \in 1 .. Len(inds) |-> cbs[inds[j]]] ELSE <<>>]

\* return CircuitResult(states, probabilities, cbits_results)
DmStatReturn ==
    /\ pc = "stat"
    /\ combo = Pow2(NumMeasurements(qc))
    /\ result' = DmListResult(states, probabilities, cbits_results)
    /\ pc' = "done"
    /\ UNCHANGED <<mode, state, cbits, heap, probability, op_index, measure_results,
                   measure_ind, entry, args, prev, outcomes>>
    /\ UNCHANGED statVars
    /\ UNCHANGED aggVars
    /\ UNCHANGED adjVars
    /\ UNCHANGED resVars

DmNext ==
    \/ DmRunCall
    \/ DmStatReplay
    \/ DmStepMeasurement
    \/ DmStepControlled
    \/ DmStepUnitary
    \/ RunReturn
    \/ StatCollect
    \/ DmStatReturn

SpecDm == DmInit /\ [][DmNext]_vars

(***************************************************************************)
(* Claims about density-matrix mode                                        *)
(***************************************************************************)
\* rho with the entries that link the two values of qubit t removed: the sum
\* over both outcomes i of P_i * rho * P_i.
Dephased(rho, t) ==
    DmNormalise(Rows([r \in 1 .. Dim |-> [c \in 1 .. Dim |->
                        IF BitOf(r - 1, t) = BitOf(c - 1, t) THEN rho[r][c] ELSE 0]]))

\* C26: in density-matrix mode a measurement step leaves the accumulated
\* probability and the classical bits (the list and its content) unchanged,
\* whether or not the measurement has a classical store and a forced-outcome
\* sequence was supplied; the forced-outcome cursor does not move either, and
\* the state becomes the probability-weighted sum of the candidate states of
\* nonzero probability.
C26_DmMeasurementOnlyChangesState ==
    [][(pc = "run" /\ mode = DensityMatrixMode /\ ops[op_index + 1].kind = "M")
        => /\ probability' = probability
           /\ cbits' = cbits
           /\ heap'[cbits'] = heap[cbits]
           /\ measure_ind' = measure_ind
           /\ op_index' = op_index + 1
           /\ state' = Dephased(state, ops[op_index + 1].operation.targets[1])]_vars

\* A run with forced outcomes <<1>> has applied a Hadamard and then measured
\* qubit 0 into classical bit 0: the bit is still 0, the probability still 1
\* and the state is the equal mixture of both outcomes.
C26_Witness ==
    /\ mode = DensityMatrixMode
    /\ entry = "CircuitSimulator.run"
    /\ Len(qc) = 2 /\ qc[1].name = "SNOT" /\ qc[2].name = "M0"
    /\ qc[2].classical_store = 0
    /\ measure_results = <<1>>
    /\ op_index = 2
    /\ heap[cbits] = Zeros
    /\ probability = <<1, 1>>
    /\ state[1][1] = 1 /\ state[Pow2(SimN - 1) + 1][Pow2(SimN - 1) + 1] = 1
    /\ state[1][Pow2(SimN - 1) + 1] = 0

\* C27: in density-matrix mode run_statistics on a program with M
\* measurements returns 2^M entries, all with the same final state, the same
\* classical bits and probability 1.
C27_DmStatisticsRedundant ==
    (mode = DensityMatrixMode /\ entry = "run_statistics" /\ pc = "done")
        => /\ Len(result.final_states) = Pow2(NumMeasurements(qc))
           /\ Len(result.probabilities) = Pow2(NumMeasurements(qc))
           /\ Len(result.cbits) = Pow2(NumMeasurements(qc))
           /\ Len(finals) = Pow2(NumMeasurements(qc))
           /\ \A j \in 1 .. Len(result.final_states) :
                 /\ result.final_states[j] = result.final_states[1]
                 /\ result.probabilities[j] = <<1, 1>>
                 /\ heap[result.cbits[j]] = heap[result.cbits[1]]
                 /\ finals[j] = finals[1]

\* run_statistics has returned for a Hadamard followed by a measurement of
\* qubit 0: two entries, both the equal mixture.
C27_Witness ==
    /\ mode = DensityMatrixMode /\ entry = "run_statistics" /\ pc = "done"
    /\ Len(qc) = 2 /\ qc[1].name = "SNOT" /\ qc[2].name = "M0"
    /\ Len(result.final_states) = 2
    /\ result.final_states[1][1][1] = 1
    /\ result.final_states[1][Pow2(SimN - 1) + 1][Pow2(SimN - 1) + 1] = 1
    /\ result.final_states[1][1][Pow2(SimN - 1) + 1] = 0
    /\ result.final_states[2] = result.final_states[1]
    /\ result.probabilities = <<<<1, 1>>, <<1, 1>>>>

(***************************************************************************)
(* The argument of the gates adjacent_gates emits                          *)
(***************************************************************************)
\* C28: every gate with the input gate's name that adjacent_gates emits for
\* an input gate carries the input gate's arg_value; a SWAPalpha with angle
\* a is emitted as a SWAPalpha with angle a.
C28_ArgumentKept ==
    \A k \in 1 .. Len(ends) :
        \A j \in 1 .. Len(Block(k)) :
            Block(k)[j].name = gates[k].name =>
                Block(k)[j].arg_value = gates[k].arg_value

\* The same for the input gates that have no argument.
C28_WithoutArgument ==
    \A k \in 1 .. Len(ends) :
        gates[k].arg_value = NoneInt =>
            \A j \in 1 .. Len(Block(k)) :
                Block(k)[j].name = gates[k].name =>
                    Block(k)[j].arg_value = gates[k].arg_value

(***************************************************************************)
(* resolve_gates on classically controlled gates                           *)
(***************************************************************************)
\* The object of identity k holding the fields of a gate g with classical
\* controls cc and control value cv.
ControlledObj(g, k, cc, cv) ==
    [cls |-> g.cls, name |-> g.name, targets |-> g.targets,
     controls |-> g.controls, arg_value |-> g.arg_value,
     classical_controls |-> cc, control_value |-> cv, obj |-> k]

\* The operations the classically controlled circuits are drawn from: gates
\* kept as they are, gates with a rewrite rule, a name without a rule and a
\* measurement.
CtlInputGates ==
    { Gate("X", <<0>>, <<>>, NoneInt),
      Gate("RZ", <<0>>, <<>>, quarter_pi),
      Gate("SNOT", <<0>>, <<>>, NoneInt),
      Gate("CNOT", <<1>>, <<0>>, NoneInt),
      Gate("CSIGN", <<1>>, <<0>>, NoneInt),
      Gate("SWAP", <<0, 1>>, <<>>, NoneInt),
      Gate("T", <<0>>, <<>>, NoneInt),
      MeasurementOp("M0", <<0>>) }

\* The classical controls of the circuit's gates: bit 0 with the default
\* control value, or bits 0 and 1 with control value 1.
CtlChoices ==
    { [classical_controls |-> <<0>>, control_value |-> NoneInt],
      [classical_controls |-> <<0, 1>>, control_value |-> 1] }

\* A circuit all of whose gates were added with the classical controls c.
CtlObjects(gs, c) ==
    [k \in 1 .. Len(gs) |->
        IF gs[k].cls = "Gate"
        THEN ControlledObj(gs[k], k, c.classical_controls, c.control_value)
        ELSE WithObj(gs[k], k)]

CtlInit ==
    /\ gates \in {CtlObjects(gs, c) :
                    gs \in SeqsUpTo(CtlInputGates, MaxResGates), c \in CtlChoices}
    /\ basis \in ResBases
    /\ basis_1q = <<>>
    /\ basis_2q = <<>>
    /\ temp_resolved = <<>>
    /\ qc_temp = <<>>
    /\ ridx = 1
    /\ rpc = "call"
    /\ rerr = <<>>
    /\ mat = <<>>
    /\ midx = 0
    /\ temp = <<>> /\ gidx = 1 /\ ends = <<>> /\ apc = "off"
    /\ AggOff
    /\ mode = "" /\ state = <<>> /\ cbits = NoneInt /\ heap = <<>>
    /\ probability = <<1, 1>> /\ op_index = 0 /\ measure_results = <<>>
    /\ measure_ind = 0 /\ pc = "off" /\ entry = "" /\ args = <<>>
    /\ prev = <<>> /\ outcomes = <<>> /\ result = <<>>
    /\ combo = 0 /\ states = <<>> /\ probabilities = <<>>
    /\ cbits_results = <<>> /\ starts = <<>> /\ finals = <<>>

SpecCtl == CtlInit /\ [][ResNext]_vars

\* C29: resolve_gates preserves classical control: when the gates of the
\* circuit all have the same classical controls and control value, every
\* gate of the returned program has these classical controls and this
\* control value.
C29_ClassicalControlKept ==
    (rpc = "done" /\ gates # <<>>) =>
        \A j \in 1 .. Len(qc_temp) :
            /\ ClassicalControlsOf(qc_temp[j]) = ClassicalControlsOf(gates[1])
            /\ ControlValueOf(qc_temp[j]) = ControlValueOf(gates[1])

\* The same for the programs returned with the gates of the circuit, one
\* for one and under the same names (no gate was rewritten).
C29_ForGatesKept ==
    (/\ rpc = "done" /\ gates # <<>>
     /\ Len(qc_temp) = Len(gates)
     /\ \A k \in 1 .. Len(gates) : qc_temp[k].name = gates[k].name) =>
        \A j \in 1 .. Len(qc_temp) :
            /\ ClassicalControlsOf(qc_temp[j]) = ClassicalControlsOf(gates[1])
            /\ ControlValueOf(qc_temp[j]) = ControlValueOf(gates[1])

(***************************************************************************)
(* Runs in state-vector mode without forced outcomes                       *)
(***************************************************************************)
\* C30: in a run in state-vector mode without forced outcomes no measurement
\* takes an outcome of probability 0: after the initialisation and after
\* every step the state is not None and the accumulated probability is
\* greater than 0, and the loop is left only when every compiled operation
\* has been executed.
C30_UnforcedRunNeverEndsEarly ==
    (/\ mode = "state_vector_simulator"
     /\ entry \in {"QubitCircuit.run", "CircuitSimulator.run"}
     /\ measure_results = <<>>
     /\ pc \in {"run", "ret"}) =>
        /\ state # None
        /\ probability[1] > 0
        /\ pc = "ret" => op_index = Len(ops)
        /\ Len(outcomes) = MeasurementsDone(ops, op_index)
        /\ \A n \in 1 .. op_index :
              ops[n].kind = "M" =>
                  OutcomeProbability(ops[n].operation, SessionAfter(n - 1).state,
                                     OutcomeAt(n))[1] > 0

\* A run without forced outcomes has measured both qubits of the basis ket
\* with qubit 0 set: each measurement had an outcome of probability 0 and
\* took the other one.
C30_Witness ==
    /\ pc = "ret" /\ entry = "CircuitSimulator.run"
    /\ mode = "state_vector_simulator"
    /\ measure_results = <<>>
    /\ Len(ops) = 2 /\ ops[1].kind = "M" /\ ops[2].kind = "M"
    /\ ops[1].operation.targets = <<0>> /\ ops[2].operation.targets = <<1>>
    /\ op_index = 2
    /\ outcomes = <<1, 0>>
    /\ probability = <<1, 1>>

====
